---- MODULE Spec2Model ----
(***************************************************************************)
(* Nexus: the generation orchestration of App.tsx.                         *)
(*                                                                         *)
(* One `flow' is one invocation of handleGenerateCustom or                 *)
(* handleGenerateNews together with the handleGenerationFlow call it       *)
(* makes.  JavaScript runs one task at a time, so every action below is    *)
(* one task: a user event handler up to its first await, or the            *)
(* continuation that runs when one remote call settles (with the           *)
(* microtask continuations that follow it without an intervening task).    *)
(***************************************************************************)
EXTENDS Integers, Sequences, FiniteSets, TLC

\* ------------------------------------------------------------------ bounds
MaxFlows == 2
MaxLines == 9
\* Largest linesPerChunk handed to chunkScript.
MaxLinesPerChunk == 8
\* Longest PCM buffer handed to createWavBlob, in bytes.
MaxPcmBytes == 260
\* Most segment URLs handed to mergeAudioSegments.
MaxSegments == 2
\* Most topics added with handleAddTopic.
MaxAdds == 1
\* Generation requests in the specification with fairness.
LiveFlows == 1

\* -------------------------------------------------------- program constants
LinesPerChunk == 6

Flows == 1..MaxFlows

\* Line counts of the scripts the script service may return.
LineCounts == {0, MaxLines}

NoScript == [id |-> 0, lines |-> << >>]
NoCover  == <<"undefined", 0>>
\* generateCoverImage returns "" when it failed.
EmptyUrl == <<"", 0>>
TopicImage == <<"topicImage", 0>>
NoError  == "null"
NoEpisode == 0

\* The topics a user may pick in NewsSelector: a built-in topic, and a custom
\* topic whose enrichment found no feed but produced an image.
TopicInputs ==
    { [name |-> "Finance", hasRss |-> TRUE,  isCustom |-> FALSE, customImage |-> NoCover],
      [name |-> "Mine",    hasRss |-> FALSE, isCustom |-> TRUE,  customImage |-> TopicImage] }

\* A topic of the registry.  A field the source leaves out (description,
\* isLoading, customImage of the built-in topics) is "undefined", FALSE and
\* NoCover here.
Topic(id, name, isCustom, color, rssUrls) ==
    [ id |-> id, name |-> name, description |-> "undefined",
      rssUrls |-> rssUrls, isCustom |-> isCustom, isLoading |-> FALSE,
      color |-> color, customImage |-> NoCover ]

DEFAULT_TOPICS ==
    << Topic("finance", "Finance", FALSE, "emerald",
             << "https://finance.yahoo.com/news/rssindex",
                "https://www.investing.com/rss/news.rss",
                "https://feeds.content.dowjones.io/public/rss/mw_topstories" >>),
       Topic("medicine", "Medicine", FALSE, "rose",
             << "https://www.sciencedaily.com/rss/health_medicine.xml",
                "https://www.medpagetoday.com/rss/headlines.xml" >>),
       Topic("space", "Space", FALSE, "indigo",
             << "https://spacenews.com/feed/",
                "https://www.space.com/feeds/all" >>),
       Topic("science", "Sciences", FALSE, "amber",
             << "https://www.sciencedaily.com/rss/all.xml",
                "https://www.wired.com/feed/category/science/latest/rss",
                "https://rss.nytimes.com/services/xml/rss/nyt/Science.xml" >>),
       Topic("politics", "Politics", FALSE, "red",
             << "http://rss.cnn.com/rss/cnn_allpolitics.rss",
                "https://feeds.npr.org/1014/rss.xml",
                "https://www.diplomatie.gouv.fr/spip.php?page=backend-fd&lang=en" >>),
       Topic("sports", "Sports", FALSE, "blue",
             << "https://www.espn.com/espn/rss/news",
                "https://sports.yahoo.com/rss/",
                "http://feeds.bbci.co.uk/sport/rss.xml" >>) >>

\* The handleAddTopic calls.
Adds == 1..MaxAdds

\* Before handleAddTopic call a: nothing is running.
NoEnrichment ==
    [ pc |-> "unused", rss |-> "none", image |-> "none",
      validUrls |-> << >>, generatedImage |-> NoCover ]

VARIABLES
    generationIdRef,  \* generationIdRef.current
    state,            \* the AppState fields the generation pipeline touches
    flow,             \* per flow: position and closure variables
    pending,          \* remote calls in flight
    history,          \* per flow: what the remote services have answered, kept
                      \* while the flow runs and after it has committed
    enrich,           \* per handleAddTopic call: its two background tasks
    chunkCall,        \* one call of chunkScript: arguments and result
    wavCall,          \* one call of createWavBlob: arguments and result
    mergeCall,        \* one call of mergeAudioSegments: the content behind each
                      \* URL, the order the fetches resolved in, result
    feedCall,         \* one call of getValidFeeds: candidates, health of each,
                      \* checks in flight, position in the loop, result
    audioCall,        \* one call of generateAudio: attempts, delays, outcome
    scriptCall        \* one call of generateScript with a text: what is sent

\* The variables of the generation pipeline, and those of the audio utilities.
appVars == <<generationIdRef, state, flow, pending, history, enrich>>
utilVars == <<chunkCall, wavCall, mergeCall, feedCall, audioCall, scriptCall>>

vars == <<generationIdRef, state, flow, pending, history, enrich,
          chunkCall, wavCall, mergeCall, feedCall, audioCall, scriptCall>>

\* No call of the utility is being looked at.
NoCall == [fn |-> "none"]

\* ------------------------------------------------------------ pure helpers

\* chunkFrom stepping one line too far after each chunk.
RECURSIVE chunkFrom_skip(_, _, _)
chunkFrom_skip(script, linesPerChunk, i) ==
    IF i < Len(script.lines)
    THEN LET hi == IF i + linesPerChunk < Len(script.lines)
                   THEN i + linesPerChunk ELSE Len(script.lines)
         IN  << [script EXCEPT !.lines = SubSeq(script.lines, i + 1, hi)] >>
             \o chunkFrom_skip(script, linesPerChunk, i + linesPerChunk + 1)
    ELSE << >>

\* chunkFrom building each chunk from its lines alone.
RECURSIVE chunkFrom_bare(_, _, _)
chunkFrom_bare(script, linesPerChunk, i) ==
    IF i < Len(script.lines)
    THEN LET hi == IF i + linesPerChunk < Len(script.lines)
                   THEN i + linesPerChunk ELSE Len(script.lines)
         IN  << [lines |-> SubSeq(script.lines, i + 1, hi)] >>
             \o chunkFrom_bare(script, linesPerChunk, i + linesPerChunk)
    ELSE << >>

\* chunkScript(script, linesPerChunk): for (i = 0; i < lines.length; i += K)
\* push {...script, lines: lines.slice(i, i + K)}
RECURSIVE chunkFrom(_, _, _)
chunkFrom(script, linesPerChunk, i) ==
    IF i < Len(script.lines)
    THEN LET hi == IF i + linesPerChunk < Len(script.lines)
                   THEN i + linesPerChunk ELSE Len(script.lines)
         IN  << [script EXCEPT !.lines = SubSeq(script.lines, i + 1, hi)] >>
             \o chunkFrom(script, linesPerChunk, i + linesPerChunk)
    ELSE << >>

chunkScript(script, linesPerChunk) == chunkFrom(script, linesPerChunk, 0)

\* The script the script service returns to flow f, with n dialogue lines.
ScriptOf(f, n) == [id |-> f, lines |-> [k \in 1..n |-> k]]

\* The object URL generateAudio returns for chunk c of flow f.
AudioUrl(f, c) == <<f, c>>

\* The data URI generateCoverImage returns to flow f.
CoverUrl(f) == <<"generated", f>>

Call(f, kind, chunk) == [flow |-> f, kind |-> kind, chunk |-> chunk]

\* ------------------------------------------------------------------- Init

InitFlow ==
    [ pc            |-> "unused",
      category      |-> "custom",
      customImage   |-> NoCover,
      shouldGenerateImage |-> TRUE,
      clickedIdle   |-> TRUE,
      currentGenId  |-> 0,
      finalCoverUrl |-> NoCover,
      script        |-> NoScript,
      audioUrls     |-> << >>,
      i             |-> 0,
      image         |-> "none" ]

InitHistory == [script |-> "none", audio |-> << >>, image |-> "none"]

AppInit ==
    /\ generationIdRef = 0
    /\ state = [ status            |-> "idle",
                 script            |-> NoScript,
                 audioSegments     |-> << >>,
                 isGeneratingAudio |-> FALSE,
                 error             |-> NoError,
                 currentEpisodeId  |-> NoEpisode,
                 activeCategory    |-> "custom",
                 customCoverUrl    |-> NoCover,
                 library           |-> << >>,
                 topics            |-> DEFAULT_TOPICS ]
    /\ flow = [f \in Flows |-> InitFlow]
    /\ pending = {}
    /\ history = [f \in Flows |-> InitHistory]
    /\ enrich = [a \in Adds |-> NoEnrichment]

Init ==
    /\ AppInit
    /\ scriptCall = NoCall
    /\ chunkCall = NoCall
    /\ wavCall = NoCall
    /\ mergeCall = NoCall
    /\ feedCall = NoCall
    /\ audioCall = NoCall

\* A configuration: what one task reads and writes.
Cfg == [ gid |-> generationIdRef, st |-> state, fl |-> flow,
         pend |-> pending, hist |-> history ]

\* Where a handler can have returned: after the commit, at the epoch check
\* that guards the commit, at an early return on a stale epoch, in a catch.
Returned == {"committed", "dropped", "abandoned", "failed"}

\* A flow whose handler has returned and whose image task has settled has no
\* code left to run.
Finished(fl) == fl.pc \in Returned /\ fl.image # "pending"

Committed(c, f) == \E k \in 1..Len(c.st.library) : c.st.library[k].script.id = f

\* The closure variables of a flow that are still read by code that can run:
\* after the handler returned only imageGenPromise is left, and it reads
\* currentGenId alone.
Live(fl) ==
    IF fl.pc \in Returned
    THEN IF fl.image = "pending"
         THEN [InitFlow EXCEPT !.pc = fl.pc, !.image = "pending",
                               !.currentGenId = fl.currentGenId]
         ELSE [InitFlow EXCEPT !.pc = fl.pc]
    ELSE fl

Install(c) ==
    /\ generationIdRef' = c.gid
    /\ state' = c.st
    /\ flow' = [f \in Flows |-> Live(c.fl[f])]
    /\ pending' = c.pend
    /\ history' = [f \in Flows |-> IF Finished(c.fl[f]) /\ ~Committed(c, f)
                                   THEN InitHistory
                                   ELSE c.hist[f]]
    /\ UNCHANGED <<enrich, utilVars>>

\* ------------------------------------------------- handleGenerationFlow

\* addToLibrary putting the new episode at the end of the library.
addToLibrary_atEnd(c, script, audioSegments, category, customImage) ==
    LET newEpisode == [ id            |-> Len(c.st.library) + 1,
                        script        |-> script,
                        audioSegments |-> audioSegments,
                        category      |-> category,
                        customImage   |-> customImage ]
    IN  [c EXCEPT !.st.library = @ \o <<newEpisode>>,
                  !.st.currentEpisodeId = newEpisode.id,
                  !.st.activeCategory = category,
                  !.st.customCoverUrl = customImage]

\* addToLibrary(script, audioSegments, category, customImage)
addToLibrary(c, script, audioSegments, category, customImage) ==
    LET newEpisode == [ id            |-> Len(c.st.library) + 1,
                        script        |-> script,
                        audioSegments |-> audioSegments,
                        category      |-> category,
                        customImage   |-> customImage ]
    IN  [c EXCEPT !.st.library = <<newEpisode>> \o @,
                  !.st.currentEpisodeId = newEpisode.id,
                  !.st.activeCategory = category,
                  !.st.customCoverUrl = customImage]

\* Finish without its epoch check.
Finish_unchecked(c, f) ==
    addToLibrary([c EXCEPT !.st.isGeneratingAudio = FALSE,
                           !.st.status = "complete",
                           !.fl[f].pc = "committed"],
                 c.fl[f].script, c.fl[f].audioUrls,
                 c.fl[f].category, c.fl[f].finalCoverUrl)

\* After `await imageGenPromise': mark complete and commit when still current.
Finish(c, f) ==
    IF c.gid = c.fl[f].currentGenId
    THEN addToLibrary([c EXCEPT !.st.isGeneratingAudio = FALSE,
                                !.st.status = "complete",
                                !.fl[f].pc = "committed"],
                      c.fl[f].script, c.fl[f].audioUrls,
                      c.fl[f].category, c.fl[f].finalCoverUrl)
    ELSE [c EXCEPT !.fl[f].pc = "dropped"]

\* Join that does not wait for the image task.
Join_nowait(c, f) == Finish(c, f)

\* `await imageGenPromise': continue at once when the image task has settled.
Join(c, f) ==
    IF c.fl[f].image = "settled"
    THEN Finish(c, f)
    ELSE [c EXCEPT !.fl[f].pc = "join"]

\* Head of the background loop, entered with loop index i.
Loop(c, f, i) ==
    LET scriptChunks == chunkScript(c.fl[f].script, LinesPerChunk)
        d == [c EXCEPT !.fl[f].i = i]
    IN  IF i < Len(scriptChunks)
        THEN IF d.gid # d.fl[f].currentGenId
             THEN Join(d, f)
             ELSE [d EXCEPT !.fl[f].pc = "loop",
                            !.pend = @ \cup {Call(f, "audio", i)}]
        ELSE Join(d, f)

\* An imageGenPromise that requests a cover for every session.
StartImage_always(c, f) ==
    [c EXCEPT !.fl[f].image = "pending",
              !.pend = @ \cup {Call(f, "image", 0)}]

\* Start of imageGenPromise: request a cover when none is preset.
StartImage(c, f) ==
    IF c.fl[f].shouldGenerateImage /\ c.fl[f].finalCoverUrl = NoCover
    THEN [c EXCEPT !.fl[f].image = "pending",
                   !.pend = @ \cup {Call(f, "image", 0)}]
    ELSE [c EXCEPT !.fl[f].image = "settled"]

\* BeginFlow leaving the previous audio list in place.
BeginFlow_keepAudio(c, f, category, customImage, shouldGenerateImage) ==
    LET currentGenId == c.gid + 1
    IN  [c EXCEPT !.gid = currentGenId,
                  !.fl[f].currentGenId = currentGenId,
                  !.fl[f].finalCoverUrl = customImage,
                  !.fl[f].category = category,
                  !.fl[f].customImage = InitFlow.customImage,
                  !.fl[f].clickedIdle = InitFlow.clickedIdle,
                  !.fl[f].shouldGenerateImage = shouldGenerateImage,
                  !.fl[f].pc = "script",
                  !.st.status = "scripting",
                  !.st.error = NoError,
                  !.st.script = NoScript,
                  !.st.currentEpisodeId = NoEpisode,
                  !.st.activeCategory = category,
                  !.st.customCoverUrl = customImage,
                  !.st.isGeneratingAudio = FALSE,
                  !.pend = @ \cup {Call(f, "script", 0)}]

\* handleGenerationFlow up to `await generateScript'.
BeginFlow(c, f, category, customImage, shouldGenerateImage) ==
    LET currentGenId == c.gid + 1
    IN  [c EXCEPT !.gid = currentGenId,
                  !.fl[f].currentGenId = currentGenId,
                  !.fl[f].finalCoverUrl = customImage,
                  !.fl[f].category = category,
                  !.fl[f].customImage = InitFlow.customImage,
                  !.fl[f].clickedIdle = InitFlow.clickedIdle,
                  !.fl[f].shouldGenerateImage = shouldGenerateImage,
                  !.fl[f].pc = "script",
                  !.st.status = "scripting",
                  !.st.error = NoError,
                  !.st.audioSegments = << >>,
                  !.st.script = NoScript,
                  !.st.currentEpisodeId = NoEpisode,
                  !.st.activeCategory = category,
                  !.st.customCoverUrl = customImage,
                  !.st.isGeneratingAudio = FALSE,
                  !.pend = @ \cup {Call(f, "script", 0)}]

\* ScriptOk requesting the first two chunks at once.
ScriptOk_fanout(c, f, script) ==
    IF c.gid # c.fl[f].currentGenId
    THEN [c EXCEPT !.fl[f].pc = "abandoned"]
    ELSE LET d == StartImage([c EXCEPT !.fl[f].script = script], f)
             e == [d EXCEPT !.st.script = script,
                            !.st.status = "synthesizing",
                            !.st.isGeneratingAudio = TRUE]
         IN  IF Len(chunkScript(script, LinesPerChunk)) > 0
             THEN [e EXCEPT !.fl[f].pc = "chunk0",
                            !.pend = @ \cup {Call(f, "audio", 0), Call(f, "audio", 1)}]
             ELSE Loop(e, f, 1)

\* Continuation of `await generateScript' when it returned a script.
ScriptOk(c, f, script) ==
    IF c.gid # c.fl[f].currentGenId
    THEN [c EXCEPT !.fl[f].pc = "abandoned"]
    ELSE LET d == StartImage([c EXCEPT !.fl[f].script = script], f)
             e == [d EXCEPT !.st.script = script,
                            !.st.status = "synthesizing",
                            !.st.isGeneratingAudio = TRUE]
         IN  IF Len(chunkScript(script, LinesPerChunk)) > 0
             THEN [e EXCEPT !.fl[f].pc = "chunk0",
                            !.pend = @ \cup {Call(f, "audio", 0)}]
             ELSE Loop(e, f, 1)

\* The outer catch: generateScript threw.
ScriptFailed(c, f) ==
    IF c.gid = c.fl[f].currentGenId
    THEN [c EXCEPT !.st.status = "error",
                   !.st.isGeneratingAudio = FALSE,
                   !.st.error = "No response from AI",
                   !.fl[f].pc = "failed"]
    ELSE [c EXCEPT !.fl[f].pc = "failed"]

\* FirstChunkOk keeping the first segment to itself until the commit.
FirstChunkOk_unpublished(c, f) ==
    IF c.gid # c.fl[f].currentGenId
    THEN [c EXCEPT !.fl[f].pc = "abandoned"]
    ELSE LET audioUrls == Append(c.fl[f].audioUrls, AudioUrl(f, 0))
         IN  Loop([c EXCEPT !.fl[f].audioUrls = audioUrls], f, 1)

\* FirstChunkOk without its epoch check.
FirstChunkOk_unchecked(c, f) ==
    LET audioUrls == Append(c.fl[f].audioUrls, AudioUrl(f, 0))
    IN  Loop([c EXCEPT !.fl[f].audioUrls = audioUrls,
                       !.st.audioSegments = audioUrls], f, 1)

\* Continuation of `await generateAudio(scriptChunks[0])' on success.
FirstChunkOk(c, f) ==
    IF c.gid # c.fl[f].currentGenId
    THEN [c EXCEPT !.fl[f].pc = "abandoned"]
    ELSE LET audioUrls == Append(c.fl[f].audioUrls, AudioUrl(f, 0))
         IN  Loop([c EXCEPT !.fl[f].audioUrls = audioUrls,
                            !.st.audioSegments = audioUrls], f, 1)

\* The first-chunk catch.
FirstChunkFailed(c, f) ==
    [c EXCEPT !.st.isGeneratingAudio = FALSE,
              !.st.status = "error",
              !.st.error = "Failed to generate audio.",
              !.fl[f].pc = "failed"]

\* ChunkOk putting the new segment in front of the list.
ChunkOk_prepend(c, f) ==
    LET i == c.fl[f].i
        audio == AudioUrl(f, i)
    IN  IF c.gid # c.fl[f].currentGenId
        THEN Join(c, f)
        ELSE Loop([c EXCEPT !.fl[f].audioUrls = <<audio>> \o @,
                            !.st.audioSegments = <<audio>> \o @], f, i + 1)

\* ChunkOk without the epoch check after the await.
ChunkOk_unchecked(c, f) ==
    LET i == c.fl[f].i
        audio == AudioUrl(f, i)
    IN  Loop([c EXCEPT !.fl[f].audioUrls = Append(@, audio),
                       !.st.audioSegments = Append(@, audio)], f, i + 1)

\* Continuation of `await generateAudio(scriptChunks[i])', i >= 1, on success.
ChunkOk(c, f) ==
    LET i == c.fl[f].i
        audio == AudioUrl(f, i)
    IN  IF c.gid # c.fl[f].currentGenId
        THEN Join(c, f)
        ELSE Loop([c EXCEPT !.fl[f].audioUrls = Append(@, audio),
                            !.st.audioSegments = Append(@, audio)], f, i + 1)

\* ChunkFailed treating a later chunk like the first one: fatal.
ChunkFailed_fatal(c, f) ==
    [c EXCEPT !.st.isGeneratingAudio = FALSE,
              !.st.status = "error",
              !.st.error = "Failed to generate audio.",
              !.fl[f].pc = "failed"]

\* The catch inside the background loop: log and go on with the next chunk.
ChunkFailed(c, f) == Loop(c, f, c.fl[f].i + 1)

\* An imageGenPromise whose empty result ends the session in error.
ImageSettled_fatal(c, f, generatedUrl) ==
    IF generatedUrl = EmptyUrl /\ c.gid = c.fl[f].currentGenId
    THEN [c EXCEPT !.fl[f].image = "settled",
                   !.fl[f].pc = "failed",
                   !.pend = {p \in @ : p.flow # f},
                   !.st.status = "error",
                   !.st.isGeneratingAudio = FALSE,
                   !.st.error = "Failed to generate cover."]
    ELSE [c EXCEPT !.fl[f].finalCoverUrl = generatedUrl,
                   !.st.customCoverUrl = generatedUrl,
                   !.fl[f].image = "settled"]

\* Continuation of `await generateCoverImage(script.topic)' in imageGenPromise,
\* followed by whatever awaits imageGenPromise.
ImageSettled(c, f, generatedUrl) ==
    LET d == IF c.gid = c.fl[f].currentGenId /\ generatedUrl # EmptyUrl
             THEN [c EXCEPT !.fl[f].finalCoverUrl = generatedUrl,
                            !.st.customCoverUrl = generatedUrl,
                            !.fl[f].image = "settled"]
             ELSE [c EXCEPT !.fl[f].image = "settled"]
    IN  IF d.fl[f].pc = "join" THEN Finish(d, f) ELSE d

\* ---------------------------------------------------------------- actions

Take(c, f, kind) == [c EXCEPT !.pend = @ \ {p \in @ : p.flow = f /\ p.kind = kind}]

Awaits(f, kind) == \E p \in pending : p.flow = f /\ p.kind = kind

\* The flows are used in order.
Fresh(f) == flow[f].pc = "unused" /\ \A g \in Flows : g < f => flow[g].pc # "unused"

\* InputSection / NewsSelector: isGenerating, isProcessing
isGenerationActive == state.status \in {"scripting", "synthesizing"}

\* handleGenerateCustom, offered by InputSection while canGenerate.
handleGenerateCustom(f) ==
    /\ Fresh(f)
    /\ ~isGenerationActive
    /\ Install(BeginFlow(Cfg, f, "custom", NoCover, TRUE))

\* handleGenerateNews up to its first await, offered by NewsSelector while
\* not isProcessing.
handleGenerateNews(f, topic) ==
    /\ Fresh(f)
    /\ ~isGenerationActive
    /\ LET c == [Cfg EXCEPT !.st.status = "scripting",
                            !.st.error = NoError,
                            !.st.script = NoScript,
                            !.st.audioSegments = << >>,
                            !.st.currentEpisodeId = NoEpisode,
                            !.st.activeCategory = topic.name,
                            !.st.customCoverUrl = topic.customImage,
                            !.fl[f].category = topic.name,
                            !.fl[f].customImage = topic.customImage,
                            !.fl[f].shouldGenerateImage = topic.isCustom,
                            !.fl[f].clickedIdle = (state.status = "idle")]
       IN  Install(IF topic.hasRss
                   THEN [c EXCEPT !.fl[f].pc = "news",
                                  !.pend = @ \cup {Call(f, "news", 0)}]
                   ELSE [c EXCEPT !.fl[f].pc = "fallback",
                                  !.pend = @ \cup {Call(f, "fallback", 0)}])

\* The catch at the end of handleGenerateNews; `state' there is the state of
\* the render the handler was created in.
NewsFlowError(c, f) ==
    IF ~c.fl[f].clickedIdle
    THEN [c EXCEPT !.st.status = "error",
                   !.st.error = "Could not gather news",
                   !.fl[f].pc = "failed"]
    ELSE [c EXCEPT !.fl[f].pc = "failed"]

EnterFlow(c, f) ==
    BeginFlow(c, f, c.fl[f].category, c.fl[f].customImage, c.fl[f].shouldGenerateImage)

\* A handler that asks the fallback whatever fetchNewsForTopic gave.
NewsSettled_alwaysFallback(f, ok) ==
    /\ Awaits(f, "news")
    /\ Install([Take(Cfg, f, "news") EXCEPT
                   !.fl[f].pc = "fallback",
                   !.pend = @ \cup {Call(f, "fallback", 0)}])

\* fetchNewsForTopic settles: a summary, or a throw that leads to the fallback.
NewsSettled(f, ok) ==
    /\ Awaits(f, "news")
    /\ LET c == Take(Cfg, f, "news")
       IN  Install(IF ok
                   THEN EnterFlow(c, f)
                   ELSE [c EXCEPT !.fl[f].pc = "fallback",
                                  !.pend = @ \cup {Call(f, "fallback", 0)}])

\* generateNewsFallback settles: "text", "" or a throw.
FallbackSettled(f, outcome) ==
    /\ Awaits(f, "fallback")
    /\ LET c == Take(Cfg, f, "fallback")
       IN  Install(IF outcome = "text" THEN EnterFlow(c, f) ELSE NewsFlowError(c, f))

\* generateScript returns a script of n lines.
ScriptReturned(f, n) ==
    /\ Awaits(f, "script")
    /\ LET c == [Take(Cfg, f, "script") EXCEPT !.hist[f].script = "returned"]
       IN  Install(ScriptOk(c, f, ScriptOf(f, n)))

\* generateScript throws.
ScriptThrew(f) ==
    /\ Awaits(f, "script")
    /\ LET c == [Take(Cfg, f, "script") EXCEPT !.hist[f].script = "threw"]
       IN  Install(ScriptFailed(c, f))

AudioSettled(f, ok) ==
    /\ Awaits(f, "audio")
    /\ LET c == [Take(Cfg, f, "audio") EXCEPT
                    !.hist[f].audio = Append(@, IF ok THEN "ok" ELSE "throw")]
       IN  Install(IF flow[f].pc = "chunk0"
                   THEN IF ok THEN FirstChunkOk(c, f) ELSE FirstChunkFailed(c, f)
                   ELSE IF ok THEN ChunkOk(c, f) ELSE ChunkFailed(c, f))

ImageResolved(f, generatedUrl) ==
    /\ Awaits(f, "image")
    /\ LET c == [Take(Cfg, f, "image") EXCEPT
                    !.hist[f].image = IF generatedUrl = EmptyUrl THEN "empty" ELSE "url"]
       IN  Install(ImageSettled(c, f, generatedUrl))

\* handleStopGeneration that leaves the epoch alone.
handleStopGeneration_samegen ==
    /\ isGenerationActive
    /\ generationIdRef' = generationIdRef
    /\ state' = [state EXCEPT !.status = "idle",
                              !.isGeneratingAudio = FALSE,
                              !.error = NoError]
    /\ UNCHANGED <<flow, pending, history, enrich, utilVars>>

\* handleStopGeneration, offered while isGenerating / isProcessing.
handleStopGeneration ==
    /\ isGenerationActive
    /\ generationIdRef' = generationIdRef + 1
    /\ state' = [state EXCEPT !.status = "idle",
                              !.isGeneratingAudio = FALSE,
                              !.error = NoError]
    /\ UNCHANGED <<flow, pending, history, enrich, utilVars>>

\* handleSelectEpisode(episode), from LibraryView.
handleSelectEpisode(k) ==
    /\ k \in 1..Len(state.library)
    /\ LET episode == state.library[k]
       IN  state' = [state EXCEPT !.script = episode.script,
                                  !.audioSegments = episode.audioSegments,
                                  !.currentEpisodeId = episode.id,
                                  !.activeCategory = episode.category,
                                  !.customCoverUrl = episode.customImage,
                                  !.status = "complete",
                                  !.isGeneratingAudio = FALSE]
    /\ UNCHANGED <<generationIdRef, flow, pending, history, enrich, utilVars>>

\* The user starts flow f from the custom tab or from a topic.
UserStartOf(f) ==
    \/ handleGenerateCustom(f)
    \/ \E topic \in TopicInputs : handleGenerateNews(f, topic)

UserStart == \E f \in Flows : UserStartOf(f)

\* One of flow f's remote calls settles, with any outcome.
SettleOf(f) ==
    \/ \E ok \in BOOLEAN : NewsSettled(f, ok)
    \/ \E outcome \in {"text", "", "throw"} : FallbackSettled(f, outcome)
    \/ \E n \in LineCounts : ScriptReturned(f, n)
    \/ ScriptThrew(f)
    \/ \E ok \in BOOLEAN : AudioSettled(f, ok)
    \/ \E generatedUrl \in {CoverUrl(f), EmptyUrl} : ImageResolved(f, generatedUrl)

Settle == \E f \in Flows : SettleOf(f)

Next ==
    \/ UserStart
    \/ Settle
    \/ handleStopGeneration
    \/ \E k \in 1..MaxFlows : handleSelectEpisode(k)

Spec == Init /\ [][Next]_vars

\* The same program with at most LiveFlows generation requests, and every
\* remote call eventually settling.
LiveNext ==
    \/ \E f \in 1..LiveFlows : UserStartOf(f)
    \/ Settle
    \/ handleStopGeneration
    \/ \E k \in 1..MaxFlows : handleSelectEpisode(k)

LiveSpec == Init /\ [][LiveNext]_vars /\ \A f \in Flows : WF_vars(SettleOf(f))

\* ------------------------------------------------------------- properties

\* A remote call of flow f settles in this step.
Settles(f) == \E p \in pending : p.flow = f /\ p \notin pending'

\* Flow f has captured an epoch and that epoch is no longer the current one.
Stale(f) == flow[f].currentGenId # 0 /\ flow[f].currentGenId # generationIdRef

IsCommitted(f) == \E k \in 1..Len(state.library) : state.library[k].script.id = f

\* C1: when a remote call of a session settles after a newer session has begun
\* (its epoch is no longer current), the step writes no script, no audio
\* segment and no cover image to the application state and commits nothing.
C1_NoStaleResult ==
    [][\A f \in Flows :
          (Stale(f) /\ Settles(f)) =>
              /\ state'.script = state.script
              /\ state'.audioSegments = state.audioSegments
              /\ state'.customCoverUrl = state.customCoverUrl
              /\ state'.library = state.library]_vars

\* Flow g began its session directly on top of flow f's epoch, and f has since
\* returned early from a successful call, its cover request still in flight.
C1_Witness ==
    \E f, g \in Flows :
        /\ flow[f].pc = "abandoned" /\ flow[f].image = "pending"
        /\ flow[g].pc = "script"
        /\ flow[g].currentGenId = generationIdRef
        /\ flow[g].currentGenId = flow[f].currentGenId + 1
        /\ state.script = NoScript /\ state.audioSegments = << >>

\* C2: a failure of a script or synthesis call of a session whose epoch is no
\* longer current changes no field of the application state.
C2_StaleFailureSilent ==
    [][\A f \in Flows :
          (Stale(f) /\ (ScriptThrew(f) \/ AudioSettled(f, FALSE))) =>
              state' = state]_vars

\* C3: while status is idle after a cancel, no settling remote call changes
\* status, script, audioSegments, cover, error or library.
C3_CancelHolds ==
    [][(state.status = "idle" /\ \E f \in Flows : Settles(f)) =>
          /\ state'.status = "idle"
          /\ state'.script = state.script
          /\ state'.audioSegments = state.audioSegments
          /\ state'.customCoverUrl = state.customCoverUrl
          /\ state'.error = state.error
          /\ state'.library = state.library]_vars

\* C4: the library only grows by one episode at its head, and the session that
\* commits it has not committed before, received a script from the script
\* service, did not see chunk 0 fail, and holds the current epoch.
C4_OneCommitPerSession ==
    [][state'.library # state.library =>
          \E f \in Flows :
              LET episode == Head(state'.library)
              IN  /\ state'.library = <<episode>> \o state.library
                  /\ episode.script.id = f
                  /\ ~IsCommitted(f)
                  /\ history'[f].script = "returned"
                  /\ Len(history'[f].audio) > 0 => history'[f].audio[1] = "ok"
                  /\ flow[f].currentGenId = generationIdRef
                  /\ generationIdRef' = generationIdRef]_vars

\* One session has committed its episode; another returned without one.
C4_Witness ==
    \E f, g \in Flows :
        /\ IsCommitted(f) /\ flow[f].pc = "committed"
        /\ flow[g].pc \in {"failed", "abandoned", "dropped"} /\ ~IsCommitted(g)

\* C5: a session that got its script and its first audio segment eventually
\* either loses the current epoch (superseded or cancelled) or has status
\* complete with the synthesizing flag cleared and exactly one library entry,
\* the newest one, whatever the later chunks and the cover image did.
C5_EventuallyComplete ==
    \A f \in Flows :
        (flow[f].pc \in {"loop", "join"} /\ flow[f].currentGenId = generationIdRef)
        ~> \/ Stale(f)
           \/ /\ state.status = "complete"
              /\ ~state.isGeneratingAudio
              /\ Cardinality({k \in 1..Len(state.library) :
                                 state.library[k].script.id = f}) = 1
              /\ Head(state.library).script.id = f
              /\ state.currentEpisodeId = Head(state.library).id

\* A session completed although its second chunk and its cover image failed.
C5_Witness ==
    \E f \in Flows :
        /\ flow[f].pc = "committed"
        /\ history[f].audio = <<"ok", "throw">>
        /\ history[f].image = "empty"
        /\ state.status = "complete"
        /\ Head(state.library).script.id = f

\* Flow f holds the current epoch.
Current(f) == flow[f].currentGenId = generationIdRef

\* C6: when generateScript or the synthesis of chunk 0 fails for the current
\* session, status becomes error with a message, the library is unchanged,
\* the handler has returned with no synthesis request left, and after a
\* chunk-0 failure the state still holds the script of that session.
C6_FatalFailure ==
    [][\A f \in Flows :
          (Current(f) /\ (ScriptThrew(f) \/ (flow[f].pc = "chunk0" /\ AudioSettled(f, FALSE)))) =>
              /\ state'.status = "error"
              /\ state'.error # NoError
              /\ state'.library = state.library
              /\ flow'[f].pc \in Returned
              /\ ~\E p \in pending' : p.flow = f /\ p.kind = "audio"
              /\ flow[f].pc = "chunk0" => state'.script = flow[f].script]_vars

\* The segments of the chunks whose synthesis succeeded, in chunk order.
RECURSIVE Successes(_, _, _)
Successes(f, outcomes, n) ==
    IF n > Len(outcomes) THEN << >>
    ELSE (IF outcomes[n] = "ok" THEN <<AudioUrl(f, n - 1)>> ELSE << >>)
         \o Successes(f, outcomes, n + 1)

\* C7: every chunk of a committed episode has been attempted and the episode's
\* audio list is the list of the successful chunks' segments in chunk order,
\* failed chunks left out; and the failure of a chunk i >= 1 never turns
\* status into error.
C7_AudioInChunkOrder ==
    /\ [](\A k \in 1..Len(state.library) :
            LET episode == state.library[k]
                f == episode.script.id
            IN  /\ Len(history[f].audio) = Len(chunkScript(episode.script, LinesPerChunk))
                /\ episode.audioSegments = Successes(f, history[f].audio, 1))
    /\ [][\A f \in Flows :
            (flow[f].pc = "loop" /\ AudioSettled(f, FALSE)) =>
                (state'.status = "error" => state.status = "error")]_vars

\* An episode was committed with one segment for two chunks.
C7_Witness ==
    \E k \in 1..Len(state.library) :
        LET episode == state.library[k]
        IN  /\ Len(chunkScript(episode.script, LinesPerChunk)) = 2
            /\ history[episode.script.id].audio = <<"ok", "throw">>
            /\ episode.audioSegments = <<AudioUrl(episode.script.id, 0)>>

\* C8: a session has at most one synthesis call outstanding; a call for chunk
\* c is outstanding only after the script call returned a script and after
\* the attempts for the c chunks before it have all settled.
C8_SequentialSynthesis ==
    \A f \in Flows :
        LET calls == {p \in pending : p.flow = f /\ p.kind = "audio"}
        IN  /\ Cardinality(calls) <= 1
            /\ \A p \in calls :
                  /\ history[f].script = "returned"
                  /\ ~Awaits(f, "script")
                  /\ Len(history[f].audio) = p.chunk

\* The call for chunk 1 is outstanding, after chunk 0 succeeded.
C8_Witness ==
    \E f \in Flows :
        /\ Call(f, "audio", 1) \in pending
        /\ history[f].audio = <<"ok">>
        /\ flow[f].audioUrls = <<AudioUrl(f, 0)>>

\* C9: a session that has committed has no remote call outstanding, not its
\* cover request either, and when its cover request produced an image the
\* committed episode carries that image.
C9_JoinBeforeCommit ==
    \A k \in 1..Len(state.library) :
        LET episode == state.library[k]
            f == episode.script.id
        IN  /\ ~\E p \in pending : p.flow = f
            /\ flow[f].image # "pending"
            /\ history[f].image = "url" => episode.customImage = CoverUrl(f)

\* An episode of two chunks carries the cover generated for its session.
C9_Witness ==
    \E k \in 1..Len(state.library) :
        LET episode == state.library[k]
        IN  /\ history[episode.script.id].image = "url"
            /\ episode.customImage = CoverUrl(episode.script.id)
            /\ Len(episode.audioSegments) = 2

\* handleGenerationFlow is entered by flow f in this step.
SessionBegins(f) == flow[f].pc \in {"unused", "news", "fallback"} /\ flow'[f].pc = "script"

\* C10: the epoch changes only by +1, exactly in the steps that begin a
\* session or cancel; a beginning session captures the new epoch, which is
\* greater than every epoch captured so far; a captured epoch never changes
\* while its flow has code to run and never exceeds the counter.
C10_EpochMonotone ==
    [][/\ generationIdRef' \in {generationIdRef, generationIdRef + 1}
       /\ (generationIdRef' = generationIdRef + 1)
              <=> (handleStopGeneration \/ \E f \in Flows : SessionBegins(f))
       /\ \A f \in Flows :
             /\ flow[f].currentGenId <= generationIdRef
             /\ SessionBegins(f) =>
                   /\ flow'[f].currentGenId = generationIdRef'
                   /\ \A g \in Flows : flow[g].currentGenId < flow'[f].currentGenId
             /\ ~SessionBegins(f) =>
                   flow'[f].currentGenId \in {flow[f].currentGenId, 0}]_vars

\* A cancel and two sessions have each taken an epoch of their own.
C10_Witness ==
    \E f, g \in Flows :
        /\ generationIdRef = 3
        /\ flow[f].currentGenId = 1 /\ flow[f].image = "pending"
        /\ flow[g].currentGenId = 3

\* C11: once a session has set status to complete or error, no settling call
\* of that session changes script, audioSegments, cover, status or error.
C11_TerminalImmutable ==
    [][\A f \in Flows :
          (flow[f].pc \in {"committed", "failed"} /\ Settles(f)) =>
              /\ state'.script = state.script
              /\ state'.audioSegments = state.audioSegments
              /\ state'.customCoverUrl = state.customCoverUrl
              /\ state'.status = state.status
              /\ state'.error = state.error]_vars

\* C12: the step in which a session enters handleGenerationFlow with a
\* category and a preset cover leaves status scripting, no script, no audio
\* segment, no error, no current episode, the synthesizing flag off, that
\* category and that cover, and the library and the topics as they were.
C12_StartResets ==
    [][\A f \in Flows :
          SessionBegins(f) =>
              LET category == IF flow[f].pc = "unused" THEN "custom" ELSE flow[f].category
                  presetCover == IF flow[f].pc = "unused" THEN NoCover ELSE flow[f].customImage
              IN  /\ state'.status = "scripting"
                  /\ state'.script = NoScript
                  /\ state'.audioSegments = << >>
                  /\ state'.error = NoError
                  /\ state'.currentEpisodeId = NoEpisode
                  /\ ~state'.isGeneratingAudio
                  /\ state'.activeCategory = category
                  /\ state'.customCoverUrl = presetCover
                  /\ state'.library = state.library
                  /\ state'.topics = state.topics]_vars

\* A session has just begun while the library holds an episode with audio.
C12_Witness ==
    \E f \in Flows :
        /\ flow[f].pc = "script" /\ Current(f)
        /\ Len(state.library) > 0
        /\ Len(Head(state.library).audioSegments) > 0
        /\ state.status = "scripting" /\ state.audioSegments = << >>

\* C13: a step changes the library only by putting one episode with a new id
\* in front of it; the entries already there keep their place and content.
C13_LibraryAppendOnly ==
    [][state'.library # state.library =>
          /\ Len(state'.library) = Len(state.library) + 1
          /\ Tail(state'.library) = state.library
          /\ \A k \in 1..Len(state.library) :
                 state.library[k].id # Head(state'.library).id]_vars

\* Two episodes are in the library and the older one has been selected.
C13_Witness ==
    /\ Len(state.library) = 2
    /\ state.currentEpisodeId = state.library[2].id
    /\ state.script = state.library[2].script
    /\ state.library[1].id # state.library[2].id

\* Session f runs without a cancel, a newer session or a selected episode
\* having touched the state since it received its script.
Uninterrupted(f) ==
    /\ Current(f)
    /\ flow[f].pc \in {"chunk0", "loop"}
    /\ state.status = "synthesizing"
    /\ state.currentEpisodeId = NoEpisode

\* C14: in an uninterrupted session the success of chunk 0 leaves exactly its
\* segment in the visible audio list, the success of a later chunk adds its
\* segment at the end, a failed chunk adds nothing, and status stays
\* synthesizing unless the step was the last chunk attempt, in which case a
\* commit puts the visible list into the new library entry.
C14_IncrementalAudio ==
    [][\A f \in Flows :
          (Uninterrupted(f) /\ \E ok \in BOOLEAN : AudioSettled(f, ok)) =>
              LET chunks == chunkScript(flow[f].script, LinesPerChunk)
                  c == IF flow[f].pc = "chunk0" THEN 0 ELSE flow[f].i
              IN  /\ (AudioSettled(f, TRUE) /\ c = 0) =>
                         state'.audioSegments = <<AudioUrl(f, 0)>>
                  /\ (AudioSettled(f, TRUE) /\ c > 0) =>
                         state'.audioSegments = Append(state.audioSegments, AudioUrl(f, c))
                  /\ (AudioSettled(f, FALSE) /\ c > 0) =>
                         state'.audioSegments = state.audioSegments
                  /\ state'.status \in {"synthesizing", "complete", "error"}
                  /\ state'.status = "error" <=> (AudioSettled(f, FALSE) /\ c = 0)
                  /\ state'.status = "complete" =>
                         /\ c + 1 = Len(chunks)
                         /\ Len(state'.library) = Len(state.library) + 1
                         /\ Head(state'.library).audioSegments = state'.audioSegments
                         /\ Head(state'.library).script = flow[f].script]_vars

\* A 9-line script gave 2 chunks, both succeeded, and the session completed
\* with 2 visible segments and a library entry holding the same 2 segments.
C14_Witness ==
    \E f \in Flows :
        /\ flow[f].pc = "committed"
        /\ history[f].audio = <<"ok", "ok">>
        /\ state.status = "complete"
        /\ state.audioSegments = <<AudioUrl(f, 0), AudioUrl(f, 1)>>
        /\ Head(state.library).audioSegments = state.audioSegments
        /\ Len(Head(state.library).script.lines) = MaxLines
        /\ Len(chunkScript(Head(state.library).script, LinesPerChunk)) = 2

\* ---------------------------------------------------------- chunkScript

\* A PodcastScript with n dialogue lines.
PodcastScript(n) ==
    [ title |-> "title", topic |-> "topic", summary |-> "summary",
      digest |-> "digest", lines |-> [k \in 1..n |-> k] ]

\* chunkScript is called with a script of up to MaxLines lines and a chunk size.
ChunkInit ==
    /\ AppInit
    /\ scriptCall = NoCall
    /\ wavCall = NoCall
    /\ mergeCall = NoCall
    /\ feedCall = NoCall
    /\ audioCall = NoCall
    /\ \E n \in 0..MaxLines, linesPerChunk \in 1..MaxLinesPerChunk :
           chunkCall = [ fn |-> "chunkScript", script |-> PodcastScript(n),
                         linesPerChunk |-> linesPerChunk,
                         returned |-> FALSE, chunks |-> << >> ]

\* chunkScript returns.
chunkScriptReturns ==
    /\ ~chunkCall.returned
    /\ chunkCall' = [chunkCall EXCEPT
                        !.returned = TRUE,
                        !.chunks = chunkScript(chunkCall.script, chunkCall.linesPerChunk)]
    /\ UNCHANGED <<appVars, wavCall, mergeCall, feedCall, audioCall, scriptCall>>

ChunkNext == chunkScriptReturns

ChunkSpec == ChunkInit /\ [][ChunkNext]_vars

\* The lines of a list of chunks, one chunk after the other.
RECURSIVE LinesOf(_)
LinesOf(chunks) ==
    IF chunks = << >> THEN << >> ELSE Head(chunks).lines \o LinesOf(Tail(chunks))

\* C15: chunkScript returns ceil(L/K) chunks for L lines and chunk size K
\* (none for L = 0), and the lines of the chunks, put one after the other,
\* are the lines of the script.
C15_ChunkCount ==
    chunkCall.returned =>
        LET L == Len(chunkCall.script.lines)
            K == chunkCall.linesPerChunk
        IN  /\ K * Len(chunkCall.chunks) >= L
            /\ K * (Len(chunkCall.chunks) - 1) < L
            /\ L = 0 => Len(chunkCall.chunks) = 0
            /\ LinesOf(chunkCall.chunks) = chunkCall.script.lines

\* A 9-line script was cut by 6 into a chunk of 6 and a chunk of 3 lines.
C15_Witness ==
    /\ chunkCall.returned
    /\ Len(chunkCall.script.lines) = MaxLines
    /\ chunkCall.linesPerChunk = LinesPerChunk
    /\ Len(chunkCall.chunks) = 2
    /\ Len(chunkCall.chunks[2].lines) = MaxLines - LinesPerChunk

\* C16: every chunk chunkScript returns has at least one and at most K lines,
\* every chunk but the last has exactly K, and every chunk has the title,
\* topic, summary and digest of the script.
C16_ChunkShape ==
    chunkCall.returned =>
        \A j \in 1..Len(chunkCall.chunks) :
            LET chunk == chunkCall.chunks[j]
            IN  /\ Len(chunk.lines) >= 1
                /\ Len(chunk.lines) <= chunkCall.linesPerChunk
                /\ j < Len(chunkCall.chunks) => Len(chunk.lines) = chunkCall.linesPerChunk
                /\ DOMAIN chunk = DOMAIN chunkCall.script
                /\ chunk.title = chunkCall.script.title
                /\ chunk.topic = chunkCall.script.topic
                /\ chunk.summary = chunkCall.script.summary
                /\ chunk.digest = chunkCall.script.digest

\* A script was cut into three chunks, the last one shorter than the others.
C16_Witness ==
    /\ chunkCall.returned
    /\ Len(chunkCall.chunks) = 3
    /\ Len(chunkCall.chunks[3].lines) < chunkCall.linesPerChunk
    /\ chunkCall.chunks[3].title = "title"

\* --------------------------------------------------------- createWavBlob

\* Size of the WAV header, in bytes.
HeaderSize == 44

\* Byte n (0 = least significant) of an unsigned value.
ByteOf(value, n) == (value \div (256 ^ n)) % 256

\* The char codes of 'RIFF', 'WAVE', 'fmt ' and 'data'.
RIFF == <<82, 73, 70, 70>>
WAVE == <<87, 65, 86, 69>>
FMT  == <<102, 109, 116, 32>>
DATA == <<100, 97, 116, 97>>

\* writeString(view, offset, string): setUint8(offset + i, string.charCodeAt(i))
writeString(view, offset, string) ==
    [k \in 1..Len(view) |->
        IF k - 1 \in offset..(offset + Len(string) - 1)
        THEN string[k - offset] ELSE view[k]]

\* setUint32 storing the most significant byte first.
setUint32_bigEndian(view, byteOffset, value) ==
    [k \in 1..Len(view) |->
        IF k - 1 \in byteOffset..(byteOffset + 3)
        THEN ByteOf(value, 3 - (k - 1 - byteOffset)) ELSE view[k]]

\* view.setUint32(byteOffset, value, true)
setUint32(view, byteOffset, value) ==
    [k \in 1..Len(view) |->
        IF k - 1 \in byteOffset..(byteOffset + 3)
        THEN ByteOf(value, k - 1 - byteOffset) ELSE view[k]]

\* view.setUint16(byteOffset, value, true)
setUint16(view, byteOffset, value) ==
    [k \in 1..Len(view) |->
        IF k - 1 \in byteOffset..(byteOffset + 1)
        THEN ByteOf(value, k - 1 - byteOffset) ELSE view[k]]

\* createWavBlob(pcmData, sampleRate): the bytes of the Blob.
createWavBlob(pcmData, sampleRate) ==
    LET numChannels == 1
        bitsPerSample == 16
        byteRate == (sampleRate * numChannels * bitsPerSample) \div 8
        blockAlign == (numChannels * bitsPerSample) \div 8
        dataSize == Len(pcmData)
        fileSize == 36 + dataSize
        h0  == [k \in 1..HeaderSize |-> 0]
        h1  == writeString(h0, 0, RIFF)
        h2  == setUint32(h1, 4, fileSize)
        h3  == writeString(h2, 8, WAVE)
        h4  == writeString(h3, 12, FMT)
        h5  == setUint32(h4, 16, 16)
        h6  == setUint16(h5, 20, 1)
        h7  == setUint16(h6, 22, numChannels)
        h8  == setUint32(h7, 24, sampleRate)
        h9  == setUint32(h8, 28, byteRate)
        h10 == setUint16(h9, 32, blockAlign)
        h11 == setUint16(h10, 34, bitsPerSample)
        h12 == writeString(h11, 36, DATA)
        header == setUint32(h12, 40, dataSize)
    IN  header \o pcmData

\* A PCM buffer of n bytes.
Pcm(n) == [k \in 1..n |-> (7 * k + 3) % 256]

\* Sample rates createWavBlob is called with; 24000 is its default.
SampleRates == {8000, 24000, 44100, 96000}

WavInit ==
    /\ AppInit
    /\ scriptCall = NoCall
    /\ chunkCall = NoCall
    /\ mergeCall = NoCall
    /\ feedCall = NoCall
    /\ audioCall = NoCall
    /\ \E n \in 0..MaxPcmBytes, sampleRate \in SampleRates :
           wavCall = [ fn |-> "createWavBlob", pcmData |-> Pcm(n),
                       sampleRate |-> sampleRate,
                       returned |-> FALSE, blob |-> << >> ]

\* createWavBlob returns.
createWavBlobReturns ==
    /\ ~wavCall.returned
    /\ wavCall' = [wavCall EXCEPT
                      !.returned = TRUE,
                      !.blob = createWavBlob(wavCall.pcmData, wavCall.sampleRate)]
    /\ UNCHANGED <<appVars, chunkCall, mergeCall, feedCall, audioCall, scriptCall>>

WavNext == createWavBlobReturns

WavSpec == WavInit /\ [][WavNext]_vars

\* The unsigned little-endian value of the n bytes at an offset.
RECURSIVE ReadLE(_, _, _)
ReadLE(bytes, offset, n) ==
    IF n = 0 THEN 0
    ELSE bytes[offset + 1] + 256 * ReadLE(bytes, offset + 1, n - 1)

\* C17: createWavBlob returns 44 header bytes followed by the N PCM bytes as
\* they were, and the header read back as little-endian unsigned fields has
\* fileSize 36 + N, 1 channel, the sample rate R, byteRate 2R, blockAlign 2,
\* 16 bits per sample and dataSize N.
C17_WavHeader ==
    wavCall.returned =>
        LET N == Len(wavCall.pcmData)
            R == wavCall.sampleRate
            blob == wavCall.blob
        IN  /\ Len(blob) = 44 + N
            /\ SubSeq(blob, 45, 44 + N) = wavCall.pcmData
            /\ ReadLE(blob, 4, 4) = 36 + N
            /\ ReadLE(blob, 22, 2) = 1
            /\ ReadLE(blob, 24, 4) = R
            /\ ReadLE(blob, 28, 4) = 2 * R
            /\ ReadLE(blob, 32, 2) = 2
            /\ ReadLE(blob, 34, 2) = 16
            /\ ReadLE(blob, 40, 4) = N

\* A buffer of 256 bytes at 24000 Hz: dataSize is stored as 00 01 00 00 and
\* the sample rate as C0 5D 00 00.
C17_Witness ==
    /\ wavCall.returned
    /\ Len(wavCall.pcmData) = 256
    /\ wavCall.sampleRate = 24000
    /\ SubSeq(wavCall.blob, 41, 44) = <<0, 1, 0, 0>>
    /\ SubSeq(wavCall.blob, 25, 28) = <<192, 93, 0, 0>>

\* ---------------------------------------------------- mergeAudioSegments

\* The PCM bytes of the segment at position j, n bytes long.
SegmentPcm(j, n) == [p \in 1..n |-> 10 * j + p]

\* What a segment URL at position j may hold: a WAV file made by
\* createWavBlob with 0, 1 or 3 PCM bytes, or 10 bytes that are no WAV file.
SegmentContents(j) ==
    { createWavBlob(SegmentPcm(j, n), 24000) : n \in {0, 1, 3} }
        \cup { SegmentPcm(j, 10) }

NotFetched == [done |-> FALSE, bytes |-> << >>]

MergeInit ==
    /\ AppInit
    /\ scriptCall = NoCall
    /\ chunkCall = NoCall
    /\ wavCall = NoCall
    /\ feedCall = NoCall
    /\ audioCall = NoCall
    /\ \E k \in 0..MaxSegments :
       \E contents \in [1..k -> UNION {SegmentContents(j) : j \in 1..k}] :
           /\ \A j \in 1..k : contents[j] \in SegmentContents(j)
           /\ mergeCall = [ fn |-> "mergeAudioSegments",
                             segmentUrls |-> contents,
                             arrival |-> << >>,
                             buffers |-> [j \in 1..k |-> NotFetched],
                             status |-> "fetching",
                             blob |-> << >> ]

\* Promise.all handing out the results in the order they arrive.
Collect_inArrivalOrder(buffers, j, buffer) ==
    LET free == CHOOSE m \in 1..Len(buffers) :
                    /\ ~buffers[m].done
                    /\ \A l \in 1..(m - 1) : buffers[l].done
    IN  [buffers EXCEPT ![free] = [done |-> TRUE, bytes |-> buffer]]

\* Promise.all(segmentUrls.map(...)): the result of the fetch for position j
\* becomes element j of `buffers'.
Collect(buffers, j, buffer) ==
    [buffers EXCEPT ![j] = [done |-> TRUE, bytes |-> buffer]]

\* buffers.map(...): the bytes after the header, nothing for a buffer that
\* is not longer than the header; then mergedPcm.set(chunk, offset) for each.
RECURSIVE mergedPcmFrom(_, _)
mergedPcmFrom(buffers, j) ==
    IF j > Len(buffers) THEN << >>
    ELSE LET buffer == buffers[j].bytes
             pcm == IF Len(buffer) <= HeaderSize THEN << >>
                    ELSE SubSeq(buffer, HeaderSize + 1, Len(buffer))
         IN  pcm \o mergedPcmFrom(buffers, j + 1)

\* The fetch of segment j resolves with its bytes.
FetchResolved(j) ==
    /\ mergeCall.status = "fetching"
    /\ j \in 1..Len(mergeCall.segmentUrls)
    /\ ~\E m \in 1..Len(mergeCall.arrival) : mergeCall.arrival[m] = j
    /\ mergeCall' = [mergeCall EXCEPT
                        !.arrival = Append(@, j),
                        !.buffers = Collect(@, j, mergeCall.segmentUrls[j])]
    /\ UNCHANGED <<appVars, chunkCall, wavCall, feedCall, audioCall, scriptCall>>

\* The fetch of a segment fails: Promise.all rejects and so does the call.
FetchRejected(j) ==
    /\ mergeCall.status = "fetching"
    /\ j \in 1..Len(mergeCall.segmentUrls)
    /\ ~\E m \in 1..Len(mergeCall.arrival) : mergeCall.arrival[m] = j
    /\ mergeCall' = [mergeCall EXCEPT !.status = "rejected"]
    /\ UNCHANGED <<appVars, chunkCall, wavCall, feedCall, audioCall, scriptCall>>

\* All fetches have resolved: mergeAudioSegments builds the merged file.
mergeAudioSegmentsReturns ==
    /\ mergeCall.status = "fetching"
    /\ \A j \in 1..Len(mergeCall.buffers) : mergeCall.buffers[j].done
    /\ mergeCall' = [mergeCall EXCEPT
                        !.status = "resolved",
                        !.blob = createWavBlob(mergedPcmFrom(mergeCall.buffers, 1), 24000)]
    /\ UNCHANGED <<appVars, chunkCall, wavCall, feedCall, audioCall, scriptCall>>

MergeNext ==
    \/ \E j \in 1..MaxSegments : FetchResolved(j)
    \/ \E j \in 1..MaxSegments : FetchRejected(j)
    \/ mergeAudioSegmentsReturns

MergeSpec == MergeInit /\ [][MergeNext]_vars

\* The number of bytes segment j contributes: those after its first 44.
Contribution(j) ==
    IF Len(mergeCall.segmentUrls[j]) <= 44 THEN 0
    ELSE Len(mergeCall.segmentUrls[j]) - 44

RECURSIVE ContributionsBefore(_)
ContributionsBefore(j) ==
    IF j <= 1 THEN 0 ELSE ContributionsBefore(j - 1) + Contribution(j - 1)

\* C18: the file mergeAudioSegments resolves with has a 24000 Hz header, a
\* dataSize and a payload length equal to the sum over the segments of their
\* length beyond 44 bytes (0 for a segment of 44 bytes or fewer), and byte p
\* beyond the header of segment j is found at the place given by the input
\* order, whatever the order in which the fetches resolved.
C18_MergeInInputOrder ==
    mergeCall.status = "resolved" =>
        LET k == Len(mergeCall.segmentUrls)
            total == ContributionsBefore(k + 1)
            blob == mergeCall.blob
        IN  /\ Len(blob) = 44 + total
            /\ ReadLE(blob, 24, 4) = 24000
            /\ ReadLE(blob, 40, 4) = total
            /\ \A j \in 1..k : \A p \in 1..Contribution(j) :
                   blob[44 + ContributionsBefore(j) + p] = mergeCall.segmentUrls[j][44 + p]

\* Two segments of 3 PCM bytes and 1 PCM byte, the second fetched first, were
\* merged into 4 bytes with the first segment's bytes first.
C18_Witness ==
    /\ mergeCall.status = "resolved"
    /\ mergeCall.arrival = <<2, 1>>
    /\ Len(mergeCall.segmentUrls) = 2
    /\ Len(mergeCall.segmentUrls[1]) = 47
    /\ Len(mergeCall.segmentUrls[2]) = 45
    /\ SubSeq(mergeCall.blob, 45, 48) = <<11, 12, 13, 21>>

\* ---------------------------------------------------------- topic registry

\* crypto.randomUUID() of handleAddTopic call a.
newTopicId(a) == "uuid-" \o ToString(a)

\* The data URI generateCoverImage returns to handleAddTopic call a.
TopicCover(a) == <<"topicImage", a>>

\* prev.topics.map(t => t.id === id ? Change(t) : t)
MapTopic(topics, id, Change(_)) ==
    [k \in 1..Len(topics) |->
        IF topics[k].id = id THEN Change(topics[k]) ELSE topics[k]]

\* A .then that puts the topic back when it is no longer in the registry.
EnrichmentDone_upsert(topics, a, validUrls, generatedImage) ==
    IF \E k \in 1..Len(topics) : topics[k].id = newTopicId(a)
    THEN MapTopic(topics, newTopicId(a),
                  LAMBDA t : [t EXCEPT !.rssUrls = validUrls,
                                       !.customImage = generatedImage,
                                       !.isLoading = FALSE])
    ELSE Append(topics, [Topic(newTopicId(a), "Mine", TRUE, "slate", validUrls)
                            EXCEPT !.customImage = generatedImage])

\* The .then of Promise.all([rssPromise, imagePromise]).
EnrichmentDone(topics, a, validUrls, generatedImage) ==
    MapTopic(topics, newTopicId(a),
             LAMBDA t : [t EXCEPT !.rssUrls = validUrls,
                                  !.customImage = generatedImage,
                                  !.isLoading = FALSE])

\* The .catch leaving the topic as it is.
EnrichmentFailed_keepLoading(topics, a) == topics

\* The .catch of Promise.all([rssPromise, imagePromise]).
EnrichmentFailed(topics, a) ==
    MapTopic(topics, newTopicId(a), LAMBDA t : [t EXCEPT !.isLoading = FALSE])

\* Promise.all over the two tasks of call a, after one of them changed to e:
\* it rejects as soon as rssPromise has rejected and resolves once both have
\* resolved; the handler that runs then writes the topic.  A call whose two
\* tasks are over keeps no closure.
SettleEnrichment(a, e) ==
    LET topics == IF e.pc # "running" THEN state.topics
                  ELSE IF e.rss = "rejected" THEN EnrichmentFailed(state.topics, a)
                  ELSE IF e.rss = "resolved" /\ e.image = "resolved"
                       THEN EnrichmentDone(state.topics, a, e.validUrls, e.generatedImage)
                       ELSE state.topics
        settled == \/ e.pc = "settled"
                   \/ e.rss = "rejected"
                   \/ e.rss = "resolved" /\ e.image = "resolved"
        f == IF settled THEN [e EXCEPT !.pc = "settled", !.validUrls = << >>,
                                       !.generatedImage = NoCover]
             ELSE e
    IN  /\ state' = [state EXCEPT !.topics = topics]
        /\ enrich' = [enrich EXCEPT ![a] = f]
        /\ UNCHANGED <<generationIdRef, flow, pending, history, utilVars>>

\* handleAddTopic putting the new topic in front of the registry.
handleAddTopic_inFront(a, name, color) ==
    /\ enrich[a].pc = "unused"
    /\ \A b \in Adds : b < a => enrich[b].pc # "unused"
    /\ LET newTopic == [ id |-> newTopicId(a),
                          name |-> name,
                          description |-> "description",
                          rssUrls |-> << >>,
                          isCustom |-> TRUE,
                          isLoading |-> TRUE,
                          color |-> IF color = "undefined" THEN "slate" ELSE color,
                          customImage |-> NoCover ]
       IN  state' = [state EXCEPT !.topics = <<newTopic>> \o @]
    /\ enrich' = [enrich EXCEPT ![a] = [NoEnrichment EXCEPT !.pc = "running",
                                                             !.rss = "discovering",
                                                             !.image = "pending"]]
    /\ UNCHANGED <<generationIdRef, flow, pending, history, utilVars>>

\* handleAddTopic(name, description, color) up to its return: the new topic
\* is appended and the two background tasks are started.
handleAddTopic(a, name, color) ==
    /\ enrich[a].pc = "unused"
    /\ \A b \in Adds : b < a => enrich[b].pc # "unused"
    /\ LET newTopic == [ id |-> newTopicId(a),
                          name |-> name,
                          description |-> "description",
                          rssUrls |-> << >>,
                          isCustom |-> TRUE,
                          isLoading |-> TRUE,
                          color |-> IF color = "undefined" THEN "slate" ELSE color,
                          customImage |-> NoCover ]
       IN  state' = [state EXCEPT !.topics = Append(@, newTopic)]
    /\ enrich' = [enrich EXCEPT ![a] = [NoEnrichment EXCEPT !.pc = "running",
                                                             !.rss = "discovering",
                                                             !.image = "pending"]]
    /\ UNCHANGED <<generationIdRef, flow, pending, history, utilVars>>

\* discoverRssFeeds settles: it throws, or returns no candidate (getValidFeeds
\* then returns [] without a request), or returns candidates to validate.
DiscoverySettled(a, outcome) ==
    /\ enrich[a].rss = "discovering"
    /\ SettleEnrichment(a,
          IF outcome = "throw" THEN [enrich[a] EXCEPT !.rss = "rejected"]
          ELSE IF outcome = "none" THEN [enrich[a] EXCEPT !.rss = "resolved"]
          ELSE [enrich[a] EXCEPT !.rss = "validating"])

\* getValidFeeds(candidates, 3) returns the feeds that passed the check.
ValidationSettled(a, validUrls) ==
    /\ enrich[a].rss = "validating"
    /\ SettleEnrichment(a, [enrich[a] EXCEPT !.rss = "resolved",
                                             !.validUrls = validUrls])

\* generateCoverImage(description) resolves, with a data URI or with "".
TopicImageSettled(a, generatedImage) ==
    /\ enrich[a].image = "pending"
    /\ SettleEnrichment(a, [enrich[a] EXCEPT !.image = "resolved",
                                             !.generatedImage = generatedImage])

\* An update that builds the topic anew from its arguments.
handleUpdateTopic_rebuilt(id, newName, newRssUrls, newColor) ==
    /\ state' = [state EXCEPT !.topics =
                     MapTopic(@, id, LAMBDA t : Topic(t.id, newName, t.isCustom,
                                                      newColor, newRssUrls))]
    /\ UNCHANGED <<generationIdRef, flow, pending, history, enrich, utilVars>>

\* handleUpdateTopic(id, newName, newRssUrls, newColor)
handleUpdateTopic(id, newName, newRssUrls, newColor) ==
    /\ state' = [state EXCEPT !.topics =
                     MapTopic(@, id, LAMBDA t : [t EXCEPT !.name = newName,
                                                          !.rssUrls = newRssUrls,
                                                          !.color = newColor])]
    /\ UNCHANGED <<generationIdRef, flow, pending, history, enrich, utilVars>>

\* handleDeleteTopic(id)
handleDeleteTopic(id) ==
    /\ state' = [state EXCEPT !.topics = SelectSeq(@, LAMBDA t : t.id # id)]
    /\ UNCHANGED <<generationIdRef, flow, pending, history, enrich, utilVars>>

\* The feeds a validation may return, and the feeds a user may save.
ValidUrlInputs == { << >>, << "https://found.example/rss" >> }
UserUrlInputs == { << >>, << "https://user.example/feed" >> }

\* The topic with an id is in the registry.
InRegistry(id) == \E k \in 1..Len(state.topics) : state.topics[k].id = id

\* The topic settings dialog: Save is offered for every topic of the
\* registry, Delete for the custom ones.
EditTopic ==
    \E k \in 1..Len(state.topics) :
        /\ state.topics[k].id \in {"finance"} \cup {newTopicId(a) : a \in Adds}
        /\ \/ \E newRssUrls \in UserUrlInputs :
                 handleUpdateTopic(state.topics[k].id,
                                   IF state.topics[k].isCustom THEN "Renamed"
                                   ELSE state.topics[k].name,
                                   newRssUrls,
                                   IF state.topics[k].isCustom THEN "rose"
                                   ELSE state.topics[k].color)
           \/ /\ state.topics[k].isCustom
              /\ handleDeleteTopic(state.topics[k].id)

\* One of the background tasks of handleAddTopic call a settles.
EnrichOf(a) ==
    \/ \E outcome \in {"throw", "none", "candidates"} : DiscoverySettled(a, outcome)
    \/ \E validUrls \in ValidUrlInputs : ValidationSettled(a, validUrls)
    \/ \E generatedImage \in {TopicCover(a), EmptyUrl} : TopicImageSettled(a, generatedImage)

\* The registry operations.
RegistryNext ==
    \/ \E a \in Adds, color \in {"undefined", "violet"} : handleAddTopic(a, "Mine", color)
    \/ \E a \in Adds : EnrichOf(a)
    \/ EditTopic

\* The registry operations, next to one custom generation.
TopicNext ==
    \/ RegistryNext
    \/ handleGenerateCustom(1)
    \/ \E n \in LineCounts : ScriptReturned(1, n)
    \/ \E ok \in BOOLEAN : AudioSettled(1, ok)
    \/ \E generatedUrl \in {CoverUrl(1), EmptyUrl} : ImageResolved(1, generatedUrl)

TopicSpec == Init /\ [][TopicNext]_vars

\* The registry operations alone, every background task eventually settling.
RegistryLiveSpec ==
    Init /\ [][RegistryNext]_vars /\ \A a \in Adds : WF_vars(EnrichOf(a))

\* The registry entry of the topic handleAddTopic call a created.
TopicOf(topics, a) ==
    topics[CHOOSE k \in 1..Len(topics) : topics[k].id = newTopicId(a)]

HasTopic(topics, a) == \E k \in 1..Len(topics) : topics[k].id = newTopicId(a)

\* C19: the step of handleAddTopic puts one topic at the end of the registry,
\* with an id no topic of the registry has, isCustom and isLoading true, no
\* feed and no image, while its discovery and image requests are both still
\* outstanding; the topics before it and every other field of the state are
\* as they were.
C19_AddTopicInserts ==
    [][\A a \in Adds :
          (enrich[a].pc = "unused" /\ enrich'[a].pc # "unused") =>
              LET n == Len(state.topics)
                  new == state'.topics[n + 1]
              IN  /\ Len(state'.topics) = n + 1
                  /\ SubSeq(state'.topics, 1, n) = state.topics
                  /\ \A k \in 1..n : state.topics[k].id # new.id
                  /\ new.id = newTopicId(a)
                  /\ new.isCustom /\ new.isLoading
                  /\ new.rssUrls = << >>
                  /\ new.customImage = NoCover
                  /\ enrich'[a].rss = "discovering" /\ enrich'[a].image = "pending"
                  /\ [state' EXCEPT !.topics = state.topics] = state
                  /\ UNCHANGED <<generationIdRef, flow, pending, history>>]_vars

\* A topic was added while a generation was synthesizing: it is the seventh
\* topic, loading, and the session fields are those of the generation.
C19_Witness ==
    /\ Len(state.topics) = Len(DEFAULT_TOPICS) + 1
    /\ state.topics[Len(state.topics)].isLoading
    /\ state.topics[Len(state.topics)].color = "slate"
    /\ enrich[1].rss = "discovering" /\ enrich[1].image = "pending"
    /\ state.status = "synthesizing"
    /\ state.script # NoScript

\* The topic of call a is in the registry and loading.
Loading(topics, a) == HasTopic(topics, a) /\ TopicOf(topics, a).isLoading

\* In this step the enrichment of call a ends without a feed: discovery
\* threw, or it returned no candidate, or no candidate passed the check.
EndsWithoutFeed(a) ==
    \/ DiscoverySettled(a, "throw")
    \/ DiscoverySettled(a, "none")
    \/ ValidationSettled(a, << >>)
    \/ /\ enrich[a].rss = "resolved" /\ enrich[a].validUrls = << >>
       /\ \E generatedImage \in {TopicCover(a), EmptyUrl} : TopicImageSettled(a, generatedImage)

\* Every started enrichment leads to its topic being deleted or not loading.
EnrichmentEnds ==
    \A a \in Adds :
        (enrich[a].pc = "running") ~> ~Loading(state.topics, a)

BothSettled(e) == e.rss \in {"resolved", "rejected"} /\ e.image = "resolved"

\* C21: in the step that turns isLoading of an added topic to false, both the
\* discovery/validation task and the image task of its call have settled.
C21_LoadingUntilBothSettle ==
    [][\A a \in Adds :
          (Loading(state.topics, a) /\ HasTopic(state'.topics, a)
             /\ ~Loading(state'.topics, a)) =>
              BothSettled(enrich'[a])]_vars

\* The image task of call a produced an image, in this step or before it.
ImageProduced(a) ==
    \/ TopicImageSettled(a, TopicCover(a))
    \/ enrich[a].image = "resolved" /\ enrich[a].generatedImage = TopicCover(a)

\* C22: in the step in which the second of the two tasks of an added topic
\* settles, when the image task produced an image and the topic is in the
\* registry, the topic's customImage is that image, whatever discovery did.
C22_ImageKept ==
    [][\A a \in Adds :
          (~BothSettled(enrich[a]) /\ BothSettled(enrich'[a])
             /\ ImageProduced(a) /\ HasTopic(state'.topics, a)) =>
              TopicOf(state'.topics, a).customImage = TopicCover(a)]_vars

\* ---------------------------------------------------------------------------
\* getValidFeeds (utils/rssUtils.ts)
\* ---------------------------------------------------------------------------

\* Largest candidate list and largest limit the calls are made with.
MaxCandidates == 7
MaxLimit == 3

\* const BATCH_SIZE = 5
BATCH_SIZE == 5

FeedUrl(k) == "https://feed.example/" \o ToString(k)

\* A list of n candidate URLs; for d >= 2 the candidate at position d is the
\* URL of position 1 once more, otherwise all candidates differ.
CandidateList(n, d) ==
    [k \in 1..n |-> IF d >= 2 /\ k = d THEN FeedUrl(1) ELSE FeedUrl(k)]

\* getValidFeeds is called with a candidate list and a limit. The outcome of
\* checkFeedHealth is decided by the network when the check resolves.
FeedInit ==
    /\ AppInit
    /\ scriptCall = NoCall
    /\ chunkCall = NoCall
    /\ wavCall = NoCall
    /\ mergeCall = NoCall
    /\ audioCall = NoCall
    /\ \E n \in 0..MaxCandidates, d \in {0} \cup (2..MaxCandidates),
          limit \in 0..MaxLimit :
           /\ d <= n
           /\ feedCall = [ fn |-> "getValidFeeds",
                            candidates |-> CandidateList(n, d),
                            limit |-> limit,
                            i |-> 0,
                            valid |-> << >>,
                            check |-> [k \in 1..n |-> "unchecked"],
                            status |-> "called" ]

\* valid.includes(url)
includes(valid, url) == \E m \in 1..Len(valid) : valid[m] = url

\* for (const res of results) without the break at the limit.
RECURSIVE collectValid_nolimit(_, _, _, _, _, _)
collectValid_nolimit(valid, candidates, check, k, last, limit) ==
    IF k > last THEN valid
    ELSE IF check[k] = "ok" /\ ~includes(valid, candidates[k])
         THEN collectValid_nolimit(Append(valid, candidates[k]), candidates,
                                   check, k + 1, last, limit)
         ELSE collectValid_nolimit(valid, candidates, check, k + 1, last, limit)

\* for (const res of results): the results of the batch at positions k..last
\* in the order of the batch; a healthy URL not yet in valid is pushed, and
\* the loop breaks once valid has `limit' entries.
RECURSIVE collectValid(_, _, _, _, _, _)
collectValid(valid, candidates, check, k, last, limit) ==
    IF k > last THEN valid
    ELSE IF check[k] = "ok" /\ ~includes(valid, candidates[k])
         THEN LET pushed == Append(valid, candidates[k])
              IN  IF Len(pushed) >= limit THEN pushed
                  ELSE collectValid(pushed, candidates, check, k + 1, last, limit)
         ELSE collectValid(valid, candidates, check, k + 1, last, limit)

\* A slice that runs to the end of the list.
batch_rest(candidates, i) == (i + 1)..Len(candidates)

\* candidates.slice(i, i + BATCH_SIZE), as positions counted from 1.
batch(candidates, i) ==
    (i + 1)..(IF i + BATCH_SIZE < Len(candidates) THEN i + BATCH_SIZE
              ELSE Len(candidates))

\* The head of the for loop: the call returns valid when the candidates are
\* used up or valid has reached the limit; otherwise batch.map(...) calls
\* checkFeedHealth for every candidate of the next batch and the call waits
\* in Promise.all.
nextBatch(c) ==
    IF c.i >= Len(c.candidates) \/ Len(c.valid) >= c.limit
    THEN [c EXCEPT !.status = "resolved"]
    ELSE [c EXCEPT !.status = "awaiting",
                   !.check = [k \in DOMAIN c.check |->
                                 IF k \in batch(c.candidates, c.i)
                                 THEN "pending" ELSE c.check[k]]]

\* The call runs up to its first await.
getValidFeeds ==
    /\ feedCall.fn = "getValidFeeds"
    /\ feedCall.status = "called"
    /\ feedCall' = nextBatch(feedCall)
    /\ UNCHANGED <<appVars, chunkCall, wavCall, mergeCall, audioCall, scriptCall>>

\* checkFeedHealth(candidates[j]) resolves. When it is the last of its batch
\* Promise.all resolves: the results are collected in batch order, i advances
\* and the loop goes on.
checkFeedHealthResolved(j, isHealthy) ==
    /\ feedCall.fn = "getValidFeeds"
    /\ feedCall.status = "awaiting"
    /\ j \in DOMAIN feedCall.check
    /\ feedCall.check[j] = "pending"
    /\ LET c == [feedCall EXCEPT
                    !.check[j] = IF isHealthy THEN "ok" ELSE "failed"]
           last == IF c.i + BATCH_SIZE < Len(c.candidates) THEN c.i + BATCH_SIZE
                   ELSE Len(c.candidates)
       IN  feedCall' =
             IF \E k \in DOMAIN c.check : c.check[k] = "pending" THEN c
             ELSE nextBatch([c EXCEPT
                     !.valid = collectValid(@, c.candidates, c.check,
                                            c.i + 1, last, c.limit),
                     !.i = @ + BATCH_SIZE])
    /\ UNCHANGED <<appVars, chunkCall, wavCall, mergeCall, audioCall, scriptCall>>

FeedNext ==
    \/ getValidFeeds
    \/ \E j \in 1..MaxCandidates, isHealthy \in BOOLEAN :
           checkFeedHealthResolved(j, isHealthy)

FeedSpec == FeedInit /\ [][FeedNext]_vars

\* The URLs of the candidates at positions k.. whose check passed, in
\* candidate order, each URL once (seen: those already listed).
RECURSIVE PassedFrom(_, _)
PassedFrom(k, seen) ==
    IF k > Len(feedCall.candidates) THEN << >>
    ELSE LET url == feedCall.candidates[k]
         IN  IF feedCall.check[k] = "ok" /\ ~includes(seen, url)
             THEN <<url>> \o PassedFrom(k + 1, Append(seen, url))
             ELSE PassedFrom(k + 1, seen)

FirstN(seq, n) == SubSeq(seq, 1, IF Len(seq) < n THEN Len(seq) ELSE n)

\* C23: getValidFeeds returns the first `limit' candidates whose health check
\* passed, in candidate order and each once (all of them when fewer than
\* `limit' passed); the result has at most `limit' entries and every entry is
\* a candidate whose check passed.
C23_FirstValidFeeds ==
    (feedCall.fn = "getValidFeeds" /\ feedCall.status = "resolved") =>
        LET valid == feedCall.valid
        IN  /\ valid = FirstN(PassedFrom(1, << >>), feedCall.limit)
            /\ Len(valid) <= feedCall.limit
            /\ \A m, l \in 1..Len(valid) : valid[m] = valid[l] => m = l
            /\ \A m \in 1..Len(valid) :
                   \E k \in 1..Len(feedCall.candidates) :
                       /\ feedCall.candidates[k] = valid[m]
                       /\ feedCall.check[k] = "ok"

\* Seven candidates, the third a repetition of the first, limit 3: the second
\* and fifth fail, the repetition is skipped, and of the two healthy
\* candidates of the second batch only the first is returned.
C23_Witness ==
    /\ feedCall.fn = "getValidFeeds"
    /\ feedCall.status = "resolved"
    /\ feedCall.candidates = CandidateList(7, 3)
    /\ feedCall.limit = 3
    /\ feedCall.check = <<"ok", "failed", "ok", "ok", "failed", "ok", "ok">>
    /\ feedCall.valid = <<FeedUrl(1), FeedUrl(4), FeedUrl(6)>>

\* The candidates whose check is issued in the step.
IssuedChecks ==
    {k \in DOMAIN feedCall.check :
        feedCall.check[k] = "unchecked" /\ feedCall'.check[k] = "pending"}

BatchOf(k) == (k - 1) \div BATCH_SIZE

\* C24: the checks issued in one step are exactly the candidates of one batch
\* of 5 (fewer in the last batch), they are issued no earlier than the step
\* in which the last check of the earlier batches resolves and only while
\* fewer than `limit' valid feeds have been collected, and the checks
\* outstanding at any time are those of one batch.
C24_BatchesOfFive ==
    [][feedCall.fn = "getValidFeeds" =>
         LET n == Len(feedCall.candidates)
         IN  /\ \A k, l \in 1..n :
                    (feedCall'.check[k] = "pending" /\ feedCall'.check[l] = "pending")
                        => BatchOf(k) = BatchOf(l)
             /\ IssuedChecks # {} =>
                    /\ \E b \in 0..n : IssuedChecks = {k \in 1..n : BatchOf(k) = b}
                    /\ \A k \in 1..n : \A l \in IssuedChecks :
                           /\ BatchOf(k) < BatchOf(l) =>
                                  feedCall'.check[k] \in {"ok", "failed"}
                           /\ BatchOf(k) > BatchOf(l) =>
                                  feedCall'.check[k] = "unchecked"
                    /\ Len(feedCall'.valid) < feedCall.limit]_vars

\* The two checks of the second batch are outstanding after the five of the
\* first batch have resolved with fewer than `limit' healthy feeds.
C24_Witness ==
    /\ feedCall.fn = "getValidFeeds"
    /\ feedCall.status = "awaiting"
    /\ Len(feedCall.candidates) = 7
    /\ \A k \in 1..5 : feedCall.check[k] \in {"ok", "failed"}
    /\ feedCall.check[6] = "pending" /\ feedCall.check[7] = "pending"
    /\ feedCall.limit = 3 /\ Len(feedCall.valid) = 2

\* ---------------------------------------------------------------------------
\* generateAudio (services/gemini.ts): the retry loop
\* ---------------------------------------------------------------------------

\* const maxRetries = 3
maxRetries == 3

\* What one request to the speech model can end in: audio data, a rejected
\* request, a response without inline data ("No audio data generated"), or
\* data that window.atob rejects.
AttemptOutcomes == {"audio", "apiError", "noAudioData", "invalidBase64"}

\* generateAudio is called for one chunk.
AudioInit ==
    /\ AppInit
    /\ scriptCall = NoCall
    /\ chunkCall = NoCall
    /\ wavCall = NoCall
    /\ mergeCall = NoCall
    /\ feedCall = NoCall
    /\ audioCall = [ fn |-> "generateAudio",
                      attempt |-> 0,
                      outcomes |-> << >>,
                      delays |-> << >>,
                      lastError |-> "undefined",
                      status |-> "called",
                      thrown |-> "undefined" ]

RECURSIVE Pow2(_)
Pow2(n) == IF n = 0 THEN 1 ELSE 2 * Pow2(n - 1)

\* A delay that grows by one second per attempt.
backoff_linear(attempt) == 1000 * (attempt + 1)

\* 1000 * Math.pow(2, attempt)
backoff(attempt) == 1000 * Pow2(attempt)

\* The error of attempt `attempt' that ended in `outcome'.
ErrorOf(attempt, outcome) == <<outcome, attempt>>

\* The call runs up to its first await: attempt 0 sends its request.
generateAudio ==
    /\ audioCall.fn = "generateAudio"
    /\ audioCall.status = "called"
    /\ audioCall' = [audioCall EXCEPT !.status = "requesting"]
    /\ UNCHANGED <<appVars, chunkCall, wavCall, mergeCall, feedCall, scriptCall>>

\* The request of the current attempt settles. With audio data the call
\* returns the object URL. Otherwise the catch records lastError and, while
\* attempt < maxRetries, starts the delay; after the last attempt the loop
\* ends and the call throws lastError.
RequestSettled(outcome) ==
    /\ audioCall.fn = "generateAudio"
    /\ audioCall.status = "requesting"
    /\ LET c == [audioCall EXCEPT !.outcomes = Append(@, outcome)]
       IN  audioCall' =
             IF outcome = "audio" THEN [c EXCEPT !.status = "resolved"]
             ELSE LET e == [c EXCEPT
                              !.lastError = ErrorOf(c.attempt, outcome)]
                  IN  IF e.attempt < maxRetries
                      THEN [e EXCEPT !.status = "delaying",
                                     !.delays = Append(@, backoff(e.attempt))]
                      ELSE [e EXCEPT !.attempt = @ + 1,
                                     !.status = "rejected",
                                     !.thrown = e.lastError]
    /\ UNCHANGED <<appVars, chunkCall, wavCall, mergeCall, feedCall, scriptCall>>

\* The delay is over: attempt++ and the next attempt sends its request.
DelayElapsed ==
    /\ audioCall.fn = "generateAudio"
    /\ audioCall.status = "delaying"
    /\ audioCall' = [audioCall EXCEPT !.attempt = @ + 1,
                                      !.status = "requesting"]
    /\ UNCHANGED <<appVars, chunkCall, wavCall, mergeCall, feedCall, scriptCall>>

AudioNext ==
    \/ generateAudio
    \/ \E outcome \in AttemptOutcomes : RequestSettled(outcome)
    \/ DelayElapsed

AudioSpec == AudioInit /\ [][AudioNext]_vars

\* The requests generateAudio has sent so far.
Attempts ==
    Len(audioCall.outcomes) + (IF audioCall.status = "requesting" THEN 1 ELSE 0)

\* C25: generateAudio sends at most 4 requests, none after one that gave
\* audio; it has waited 1000, 2000 and 4000 ms before the 2nd, 3rd and 4th
\* request and waits no more after the 4th; it throws exactly when 4
\* requests failed, and then the error of the 4th.
C25_RetryWithBackoff ==
    audioCall.fn = "generateAudio" =>
        LET outcomes == audioCall.outcomes
            delays == audioCall.delays
        IN  /\ Attempts <= 4
            /\ \A k \in 1..Len(outcomes) :
                   outcomes[k] = "audio" =>
                       /\ k = Len(outcomes)
                       /\ audioCall.status = "resolved"
            /\ audioCall.status = "resolved" =>
                   outcomes[Len(outcomes)] = "audio"
            /\ delays = FirstN(<<1000, 2000, 4000>>, Len(delays))
            /\ audioCall.status = "requesting" => Len(delays) = Attempts - 1
            /\ audioCall.status = "delaying" => Len(delays) = Attempts
            /\ audioCall.status = "rejected" => Len(delays) = 3
            /\ audioCall.status = "rejected" <=>
                   /\ Len(outcomes) = 4
                   /\ \A k \in 1..4 : outcomes[k] # "audio"
            /\ audioCall.status = "rejected" =>
                   audioCall.thrown = ErrorOf(3, outcomes[4])

\* Four requests failed, each in its own way at the end, and the call threw
\* the error of the fourth after waiting three times.
C25_Witness ==
    /\ audioCall.fn = "generateAudio"
    /\ audioCall.status = "rejected"
    /\ audioCall.outcomes =
           <<"apiError", "noAudioData", "apiError", "invalidBase64">>
    /\ audioCall.delays = <<1000, 2000, 4000>>
    /\ audioCall.thrown = ErrorOf(3, "invalidBase64")

\* C26: every built-in topic is in the registry with the rssUrls it was
\* defined with.
C26_BuiltInFixed ==
    \A d \in 1..Len(DEFAULT_TOPICS) :
        \E k \in 1..Len(state.topics) :
            /\ state.topics[k].id = DEFAULT_TOPICS[d].id
            /\ state.topics[k].rssUrls = DEFAULT_TOPICS[d].rssUrls

\* ---------------------------------------------------------------------------
\* handleUpdateTopic and handleDeleteTopic as operations: called with any id,
\* next to the enrichment of added topics and the start of a generation
\* ---------------------------------------------------------------------------

\* The ids the two operations are called with: a built-in one, those of added
\* topics, and one that no topic has.
EditIds == {"space", "no-such-topic"} \cup {newTopicId(a) : a \in Adds}

\* A call of one of the two operations.
DirectEdit ==
    \E id \in EditIds :
        \/ \E newRssUrls \in UserUrlInputs :
               handleUpdateTopic(id, "Renamed", newRssUrls, "rose")
        \/ handleDeleteTopic(id)

EditNext ==
    \/ \E a \in Adds, color \in {"undefined", "violet"} : handleAddTopic(a, "Mine", color)
    \/ \E a \in Adds : EnrichOf(a)
    \/ DirectEdit
    \/ handleGenerateCustom(1)
    \/ \E n \in LineCounts : ScriptReturned(1, n)

EditSpec == Init /\ [][EditNext]_vars

\* The list without its element at position k.
Without(topics, k) == SubSeq(topics, 1, k - 1) \o SubSeq(topics, k + 1, Len(topics))

\* Nothing but the registry changes in the step.
OnlyTopicsChange ==
    /\ [state' EXCEPT !.topics = state.topics] = state
    /\ UNCHANGED <<generationIdRef, flow, pending, history, enrich, utilVars>>

\* C27: a handleUpdateTopic(id, ...) step leaves the registry as long as it
\* was and changes at most name, rssUrls and color of the topic with the id;
\* a handleDeleteTopic(id) step removes the topic with the id and keeps the
\* others in their order; with an id no topic has, both leave the registry
\* as it is; neither changes anything outside the registry.
C27_EditFrame ==
    [][\A id \in EditIds :
          /\ (\E newRssUrls \in UserUrlInputs :
                 handleUpdateTopic(id, "Renamed", newRssUrls, "rose")) =>
                /\ OnlyTopicsChange
                /\ Len(state'.topics) = Len(state.topics)
                /\ \A k \in 1..Len(state.topics) :
                       IF state.topics[k].id = id
                       THEN [state'.topics[k] EXCEPT
                                !.name = state.topics[k].name,
                                !.rssUrls = state.topics[k].rssUrls,
                                !.color = state.topics[k].color] = state.topics[k]
                       ELSE state'.topics[k] = state.topics[k]
          /\ handleDeleteTopic(id) =>
                /\ OnlyTopicsChange
                /\ IF InRegistry(id)
                   THEN \E k \in 1..Len(state.topics) :
                            /\ state.topics[k].id = id
                            /\ state'.topics = Without(state.topics, k)
                   ELSE state'.topics = state.topics]_vars

\* A custom topic that enrichment gave feeds and an image has been renamed,
\* and the built-in topic Space has been deleted from between its neighbours.
C27_Witness ==
    /\ HasTopic(state.topics, 1)
    /\ TopicOf(state.topics, 1).name = "Renamed"
    /\ TopicOf(state.topics, 1).customImage = TopicCover(1)
    /\ ~TopicOf(state.topics, 1).isLoading
    /\ ~InRegistry("space")
    /\ state.topics[2].id = "medicine" /\ state.topics[3].id = "science"
    /\ state.status = "synthesizing" /\ state.script # NoScript

\* C28: while a topic-based request g is gathering news, no settling call of
\* a session that began before it (and has captured its epoch) changes
\* script, audioSegments, cover, status or library.
C28_NewsRequestSupersedes ==
    [][\A f, g \in Flows :
          (f < g /\ flow[f].currentGenId # 0
             /\ flow[g].pc \in {"news", "fallback"} /\ Settles(f)) =>
              /\ state'.script = state.script
              /\ state'.audioSegments = state.audioSegments
              /\ state'.customCoverUrl = state.customCoverUrl
              /\ state'.status = state.status
              /\ state'.library = state.library]_vars

\* C29, first part: isGeneratingAudio is true only while status is
\* synthesizing.
C29_FlagOnlyWhileSynthesizing ==
    state.isGeneratingAudio => state.status = "synthesizing"

\* C29, second part: no step extends audioSegments while status is complete,
\* error or idle, other than the selection of a library episode, which
\* replaces the list.
C29_NoAudioOutsideSynthesis ==
    [][(state.status \in {"complete", "error", "idle"}
          /\ Len(state'.audioSegments) > Len(state.audioSegments)) =>
              \E k \in 1..Len(state.library) : handleSelectEpisode(k)]_vars

\* The cover request of flow f is issued in the step.
ImageIssued(f) ==
    /\ ~Awaits(f, "image")
    /\ \E p \in pending' : p.flow = f /\ p.kind = "image"

\* The script call of flow f returns a script in the step.
ScriptSucceeds(f) ==
    /\ flow[f].pc = "script"
    /\ Call(f, "script", 0) \in pending \ pending'
    /\ history'[f].script = "returned"

EpisodeOf(f) ==
    state.library[CHOOSE k \in 1..Len(state.library) : state.library[k].script.id = f]

\* The step in which a cover request settles without an image sets no error;
\* it leaves status and customCoverUrl as they were, unless the session was
\* waiting for it to commit, and then status is complete and the episode
\* and customCoverUrl are without cover.
CoverFailureFrame ==
    [][\A f \in Flows :
          ImageResolved(f, EmptyUrl) =>
              /\ state'.error = state.error
              /\ IF state'.library = state.library
                 THEN /\ state'.status = state.status
                      /\ state'.customCoverUrl = state.customCoverUrl
                 ELSE /\ state'.status = "complete"
                      /\ state'.customCoverUrl = NoCover
                      /\ Head(state'.library).script.id = f
                      /\ Head(state'.library).customImage = NoCover]_vars

\* C31: a cover request that settles without an image changes neither status
\* nor error nor the cover (CoverFailureFrame), and a current session whose
\* cover request gave no image and whose first chunk was synthesized
\* eventually loses the epoch or is committed with an episode without cover.
C31_CoverFailureIgnored ==
    /\ CoverFailureFrame
    /\ \A f \in Flows :
          (history[f].image = "empty" /\ Current(f) /\ flow[f].pc \in {"loop", "join"})
          ~> \/ Stale(f)
             \/ /\ IsCommitted(f)
                /\ EpisodeOf(f).customImage = NoCover
                /\ history[f].image = "empty"

\* The cover request of a session gave no image while its second chunk was
\* being synthesized, and the session has committed an episode with two
\* segments and no cover.
C31_Witness ==
    \E f \in Flows :
        /\ IsCommitted(f)
        /\ history[f].image = "empty"
        /\ history[f].audio = <<"ok", "ok">>
        /\ EpisodeOf(f).customImage = NoCover
        /\ Len(EpisodeOf(f).audioSegments) = 2
        /\ state.status = "complete" /\ state.error = NoError
        /\ state.customCoverUrl = NoCover

\* The feed fetch, the fallback request of flow f is issued in the step.
NewsIssued(f) == ~Awaits(f, "news") /\ Call(f, "news", 0) \in pending'
FallbackIssued(f) == ~Awaits(f, "fallback") /\ Call(f, "fallback", 0) \in pending'

\* C32: a topic-based request for a topic without feeds issues no feed fetch
\* and requests the fallback when it is made; one for a topic with feeds
\* issues the fetch and requests the fallback in the step in which the fetch
\* fails, and not when it succeeds; no request issues a fetch or asks the
\* fallback at any other point, so each is issued at most once.
C32_FallbackOnce ==
    [][\A f \in Flows :
          /\ (flow[f].pc = "unused" /\ flow'[f].pc \in {"news", "fallback"}) =>
                \E topic \in TopicInputs :
                    /\ handleGenerateNews(f, topic)
                    /\ NewsIssued(f) <=> topic.hasRss
                    /\ FallbackIssued(f) <=> ~topic.hasRss
          /\ (flow[f].pc = "news" /\ Settles(f)) =>
                /\ ~NewsIssued(f)
                /\ FallbackIssued(f) <=> NewsSettled(f, FALSE)
                /\ ~FallbackIssued(f) <=> NewsSettled(f, TRUE)
          /\ (NewsIssued(f) \/ FallbackIssued(f)) =>
                \/ flow[f].pc = "unused"
                \/ flow[f].pc = "news" /\ Settles(f)]_vars

\* One request asked the fallback after its feed fetch failed, another went
\* on to its script from the feeds alone.
C32_Witness ==
    \E f, g \in Flows :
        /\ flow[f].pc = "fallback" /\ Awaits(f, "fallback")
        /\ flow[f].category = "Finance"
        /\ flow[g].pc = "script" /\ flow[g].category = "Finance"
        /\ ~Awaits(g, "fallback")

\* ---------------------------------------------------------------------------
\* generateScript (services/gemini.ts): the text that is sent
\* ---------------------------------------------------------------------------

\* How far below and above the limit, and from 0 up, the text lengths go.
TextMargin == 30

\* if (textInput.length > 40000)
TruncateAt == 40000

\* "...[TRUNCATED]" and 'Source:\n"', as character codes.
TRUNCATED == <<46, 46, 46, 91, 84, 82, 85, 78, 67, 65, 84, 69, 68, 93>>
SourcePrefix == <<83, 111, 117, 114, 99, 101, 58, 10, 34>>
Quote == <<34>>

\* A text of n lower-case letters.
TextOf(n) == [k \in 1..n |-> 97 + (k % 26)]

TextLengths ==
    (0..TextMargin) \cup ((TruncateAt - TextMargin)..(TruncateAt + TextMargin))

\* generateScript is called with a text.
ScriptInit ==
    /\ AppInit
    /\ chunkCall = NoCall
    /\ wavCall = NoCall
    /\ mergeCall = NoCall
    /\ feedCall = NoCall
    /\ audioCall = NoCall
    /\ \E n \in TextLengths :
           scriptCall = [ fn |-> "generateScript", input |-> TextOf(n),
                          sent |-> FALSE, contentPart |-> << >> ]

\* String.prototype.slice(start, end) for 0 <= start <= end.
slice(text, start, end) ==
    SubSeq(text, start + 1, IF end < Len(text) THEN end ELSE Len(text))

\* A truncation that starts at the limit itself.
truncated_fromLimit(textInput) ==
    IF Len(textInput) >= TruncateAt
    THEN slice(textInput, 0, TruncateAt) \o TRUNCATED
    ELSE textInput

\* if (textInput.length > 40000) textInput = textInput.slice(0, 40000) + "...[TRUNCATED]"
truncated(textInput) ==
    IF Len(textInput) > TruncateAt
    THEN slice(textInput, 0, TruncateAt) \o TRUNCATED
    ELSE textInput

\* contentPart = `Source:\n"${textInput}"`
contentPart(textInput) == SourcePrefix \o textInput \o Quote

\* The call builds contentPart and sends the request.
generateScriptSends ==
    /\ scriptCall.fn = "generateScript"
    /\ ~scriptCall.sent
    /\ scriptCall' = [scriptCall EXCEPT
                         !.sent = TRUE,
                         !.contentPart = contentPart(truncated(scriptCall.input))]
    /\ UNCHANGED <<appVars, chunkCall, wavCall, mergeCall, feedCall, audioCall>>

ScriptNext == generateScriptSends

ScriptSpec == ScriptInit /\ [][ScriptNext]_vars

\* The text between 'Source:\n"' and the closing quote of what was sent.
SentTextOf(content) ==
    SubSeq(content, Len(SourcePrefix) + 1, Len(content) - 1)

\* C33: a text of at most 40000 characters is sent as it is; of a longer one
\* the first 40000 characters are sent, followed by "...[TRUNCATED]".
C33_TruncateAt40000 ==
    (scriptCall.fn = "generateScript" /\ scriptCall.sent) =>
        LET input == scriptCall.input
            SentText == SentTextOf(scriptCall.contentPart)
        IN  /\ SubSeq(scriptCall.contentPart, 1, Len(SourcePrefix)) = SourcePrefix
            /\ scriptCall.contentPart[Len(scriptCall.contentPart)] = 34
            /\ Len(input) <= 40000 => SentText = input
            /\ Len(input) > 40000 =>
                   /\ Len(SentText) = 40000 + 14
                   /\ \A k \in 1..40000 : SentText[k] = input[k]
                   /\ \A k \in 1..14 : SentText[40000 + k] = TRUNCATED[k]

\* A text of exactly 40000 characters has been sent whole.
C33_Witness ==
    /\ scriptCall.fn = "generateScript"
    /\ scriptCall.sent
    /\ Len(scriptCall.input) = 40000
    /\ SentTextOf(scriptCall.contentPart) = scriptCall.input

\* C34: the step in which the fallback of a topic-based request fails or
\* gives an empty text, after the feeds gave nothing, leaves status error
\* with a message.
C34_NewsFailureIsError ==
    [][\A f \in Flows :
          (FallbackSettled(f, "") \/ FallbackSettled(f, "throw")) =>
              /\ state'.status = "error"
              /\ state'.error # NoError]_vars

\* C35: when currentEpisodeId is set, the library holds an episode with that
\* id and the visible script and audioSegments are those of that episode.
C35_VisibleIsCurrentEpisode ==
    state.currentEpisodeId # NoEpisode =>
        \E k \in 1..Len(state.library) :
            /\ state.library[k].id = state.currentEpisodeId
            /\ state.script = state.library[k].script
            /\ state.audioSegments = state.library[k].audioSegments

\* C36: every episode of the library has at least one audio segment.
C36_EpisodeHasAudio ==
    \A k \in 1..Len(state.library) : Len(state.library[k].audioSegments) >= 1

\* The synthesis requests of flow f in a set of calls.
AudioCalls(calls, f) == {p \in calls : p.flow = f /\ p.kind = "audio"}

\* C37: a session whose epoch is no longer current has at most one synthesis
\* request outstanding, issues no synthesis request, and the step in which
\* its outstanding request settles adds nothing to audioSegments.
C37_NoSynthesisAfterCancel ==
    [][\A f \in Flows :
          Stale(f) =>
              /\ Cardinality(AudioCalls(pending, f)) <= 1
              /\ AudioCalls(pending', f) \subseteq AudioCalls(pending, f)
              /\ AudioCalls(pending', f) # AudioCalls(pending, f) =>
                     state'.audioSegments = state.audioSegments]_vars

\* A session was cancelled while its chunk-0 request was in flight; the
\* request has settled, no request for chunk 1 was issued and no segment
\* is visible.
C37_Witness ==
    \E f \in Flows :
        /\ Stale(f)
        /\ flow[f].pc = "abandoned" /\ flow[f].image = "pending"
        /\ AudioCalls(pending, f) = {}
        /\ state.status = "idle"
        /\ state.script = ScriptOf(f, MaxLines)
        /\ state.audioSegments = << >>

\* C38: the rssUrls of an added topic that a Save of the settings dialog has
\* stored (the Save also names the topic "Renamed") change only in another
\* Save for that topic.
C38_SavedFeedsStay ==
    [][\A a \in Adds :
          (/\ HasTopic(state.topics, a)
           /\ HasTopic(state'.topics, a)
           /\ TopicOf(state.topics, a).name = "Renamed"
           /\ TopicOf(state'.topics, a).rssUrls # TopicOf(state.topics, a).rssUrls) =>
              \E newRssUrls \in UserUrlInputs :
                  handleUpdateTopic(newTopicId(a), "Renamed", newRssUrls, "rose")]_vars

\* C39: a step in which a background task of handleAddTopic call a settles
\* leaves the registry as long as it was, so a deleted topic is not put
\* back; it changes at most rssUrls, customImage and isLoading of the topic
\* of that call and nothing of the other topics or of the session.
C39_EnrichmentFrame ==
    [][\A a \in Adds :
          EnrichOf(a) =>
              /\ [state' EXCEPT !.topics = state.topics] = state
              /\ Len(state'.topics) = Len(state.topics)
              /\ \A k \in 1..Len(state.topics) :
                     IF state.topics[k].id = newTopicId(a)
                     THEN [state'.topics[k] EXCEPT
                              !.rssUrls = state.topics[k].rssUrls,
                              !.customImage = state.topics[k].customImage,
                              !.isLoading = state.topics[k].isLoading]
                          = state.topics[k]
                     ELSE state'.topics[k] = state.topics[k]]_vars

\* The enrichment of a topic has settled with feeds and an image, and the
\* topic, deleted meanwhile, is not in the registry.
C39_Witness ==
    \E a \in Adds :
        /\ enrich[a].pc = "settled"
        /\ enrich[a].rss = "resolved" /\ enrich[a].image = "resolved"
        /\ ~HasTopic(state.topics, a)
        /\ Len(state.topics) = Len(DEFAULT_TOPICS)

====
